---- MODULE Spec2Model ----
(***************************************************************************)
(* A model of the resilience layer of claude-code-notion (src/src/index.ts):*)
(* the CircuitBreaker class, NotionRoadmapManager.executeWithRetry,        *)
(* executeWithResilience, the idempotency cache and the public operations  *)
(* that are routed through them.                                           *)
(*                                                                         *)
(* JavaScript runs every handler to completion: the code between two       *)
(* awaits of a remote call (or of a timer) is one atomic step.  Each       *)
(* action below is one such step.                                          *)
(***************************************************************************)
EXTENDS Integers, Sequences, FiniteSets, TLC

(***************************************************************************)
(* Bounds of the model.                                                    *)
(***************************************************************************)
MaxTime == 5
MaxFailureThreshold == 2
MaxSuccessThreshold == 2
ResetTimeoutMs == 2
MaxAttempts == 3
MinDelayMs == 10
MaxDelayMs == 15
RequestTimeoutMs == 2
GlobalTimeoutMs == 16
MaxRetryAfter == 2
TtlMs == 2
MaxOps == 2

MaxMgrAttempts == 2

MaxMgrTime == 3

MaxOrphans == 1

\* `undefined` for the optional Date fields of the breaker.
NoTime == -1

\* `undefined` for the retry-after header (its value is a number of seconds).
NoHeader == -1

\* The callers that may have an execute call in flight at the same time.
Calls == {"a", "b"}

VARIABLES
    cb,        \* the CircuitBreaker's private fields
    config,    \* CircuitBreakerConfig
    now,       \* Date.now()
    inflight,  \* per caller: "idle", or "running" (its operation is awaited)
    pre,       \* history: the breaker's fields before the last step
    ev,        \* history: what the last step was
    streak,    \* history: failed operations since the last success or reset
    streakAt,  \* history: the time of the last failed operation
    hoSucc,    \* history: successes since the breaker entered HALF_OPEN
    stale,     \* history, per caller: its last call was admitted before the
               \* breaker last entered HALF_OPEN
    enterprise,\* EnterpriseOptions: retries and timeout
    rx,        \* one run of executeWithRetry: where it is, and its locals
    hist,      \* history of that run: invocations, failures, sleeps
    env,       \* process.env: the kill switches
    cache,     \* NotionRoadmapManager.idempotencyCache
    mc,        \* per caller: its call of a public operation of the manager
    opsLeft,   \* how many more public calls the model lets start
    prevUpd,   \* history: the updateTask call that ended just before
    cx,        \* history of the idempotency cache: the records made, and
               \* the lookup made by the last step
    tr,        \* the manager's correlation id, and the ids its calls made
    cl,        \* one call of CcnError.fromNotionError: argument and outcome
    batch,     \* one call of batchUpdate: its locals and its callbacks
    ut         \* concurrent updateTask calls, and the writes they made

vars == <<cb, config, now, inflight, pre, ev, streak, streakAt, hoSucc, stale,
          enterprise, rx, hist, env, cache, mc, opsLeft, prevUpd, cx,
          tr, cl, batch, ut>>

mgrVars == <<env, cache, mc, opsLeft, prevUpd, cx, tr, cl, batch, ut>>

breakerVars == <<cb, config, inflight, pre, streak, streakAt, hoSucc, stale>>
retryVars == <<enterprise, rx, hist>>

(***************************************************************************)
(* CircuitBreaker                                                          *)
(***************************************************************************)
CircuitState == {"CLOSED", "OPEN", "HALF_OPEN"}

\* The field initialisers of the class.
NewBreaker ==
    [state |-> "CLOSED", failureCount |-> 0, successCount |-> 0,
     lastFailureTime |-> NoTime, nextRetryTime |-> NoTime]

\* Mutant: the reset timer never elapses.
shouldAttemptReset_never(b, t) == FALSE

\* Mutant: the reset timer compared strictly.
shouldAttemptReset_strict(b, t) ==
    IF b.nextRetryTime # NoTime THEN t > b.nextRetryTime ELSE FALSE

shouldAttemptReset(b, t) ==
    IF b.nextRetryTime # NoTime THEN t >= b.nextRetryTime ELSE FALSE

openCircuit(b, t) ==
    [b EXCEPT !.state = "OPEN", !.nextRetryTime = t + config.resetTimeoutMs]

\* Mutant: a success leaves failureCount as it is.
onSuccess_keepsFailures(b) ==
    IF b.state = "HALF_OPEN"
    THEN LET b2 == [b EXCEPT !.successCount = @ + 1]
         IN  IF b2.successCount >= config.successThreshold
             THEN [b2 EXCEPT !.state = "CLOSED", !.successCount = 0]
             ELSE b2
    ELSE b

\* Mutant: a success counts toward closing in whatever state the breaker is.
onSuccess_anyState(b) ==
    LET b2 == [b EXCEPT !.failureCount = 0, !.successCount = @ + 1]
    IN  IF b2.successCount >= config.successThreshold
        THEN [b2 EXCEPT !.state = "CLOSED", !.successCount = 0]
        ELSE b2

\* Mutant: the success threshold compared strictly.
onSuccess_strict(b) ==
    LET b1 == [b EXCEPT !.failureCount = 0]
    IN  IF b1.state = "HALF_OPEN"
        THEN LET b2 == [b1 EXCEPT !.successCount = @ + 1]
             IN  IF b2.successCount > config.successThreshold
                 THEN [b2 EXCEPT !.state = "CLOSED", !.successCount = 0]
                 ELSE b2
        ELSE b1

onSuccess(b) ==
    LET b1 == [b EXCEPT !.failureCount = 0]
    IN  IF b1.state = "HALF_OPEN"
        THEN LET b2 == [b1 EXCEPT !.successCount = @ + 1]
             IN  IF b2.successCount >= config.successThreshold
                 THEN [b2 EXCEPT !.state = "CLOSED", !.successCount = 0]
                 ELSE b2
        ELSE b1

\* Mutant: the failure threshold compared strictly.
onFailure_strict(b, t) ==
    LET b1 == [b EXCEPT !.failureCount = @ + 1, !.lastFailureTime = t]
    IN  IF b1.state = "HALF_OPEN" THEN openCircuit(b1, t)
        ELSE IF b1.failureCount > config.failureThreshold THEN openCircuit(b1, t)
        ELSE b1

\* Mutant: a failure in HALF_OPEN is held against the threshold like any other.
onFailure_noTrialBranch(b, t) ==
    LET b1 == [b EXCEPT !.failureCount = @ + 1, !.lastFailureTime = t]
    IN  IF b1.failureCount >= config.failureThreshold THEN openCircuit(b1, t)
        ELSE b1

onFailure(b, t) ==
    LET b1 == [b EXCEPT !.failureCount = @ + 1, !.lastFailureTime = t]
    IN  IF b1.state = "HALF_OPEN" THEN openCircuit(b1, t)
        ELSE IF b1.failureCount >= config.failureThreshold THEN openCircuit(b1, t)
        ELSE b1

\* Mutant: reset() closes the breaker and leaves the counters as they are.
reset_stateOnly(b) ==
    [b EXCEPT !.state = "CLOSED", !.lastFailureTime = NoTime,
              !.nextRetryTime = NoTime]

\* Mutant: reset() clears the counters and leaves the state and the retry
\* time as they are.
reset_countersOnly(b) ==
    [b EXCEPT !.failureCount = 0, !.successCount = 0]

reset(b) ==
    [b EXCEPT !.state = "CLOSED", !.failureCount = 0, !.successCount = 0,
              !.lastFailureTime = NoTime, !.nextRetryTime = NoTime]

\* The synchronous head of execute for an enabled breaker: the OPEN ->
\* HALF_OPEN check, then the fail-fast test.  `open` says the call is
\* rejected with a CircuitOpen error before the operation is invoked.
\* Mutant: a rejection is counted as a failure.
executeGate_countsRejection(b, t) ==
    LET b1 == IF b.state = "OPEN" /\ shouldAttemptReset(b, t)
              THEN [b EXCEPT !.state = "HALF_OPEN", !.successCount = 0]
              ELSE b
    IN  [cb |-> IF b1.state = "OPEN"
                THEN [b1 EXCEPT !.failureCount = @ + 1] ELSE b1,
         open |-> (b1.state = "OPEN")]

executeGate(b, t) ==
    LET b1 == IF b.state = "OPEN" /\ shouldAttemptReset(b, t)
              THEN [b EXCEPT !.state = "HALF_OPEN", !.successCount = 0]
              ELSE b
    IN  [cb |-> b1, open |-> (b1.state = "OPEN")]

(***************************************************************************)
(* Failure values and CcnError.fromNotionError                             *)
(***************************************************************************)
\* What an operation can reject with: a raw error of the Notion client (any
\* code, status and retry-after header), null, or a CcnError thrown by the
\* library itself.
Raw(code, status, retryAfter) ==
    [kind |-> "raw", code |-> code, status |-> status, retryAfter |-> retryAfter]

ThrownNull == [kind |-> "null"]

TypeError == [kind |-> "TypeError"]

\* `undefined`, thrown by `throw lastError` when the loop body never ran.
ThrownUndefined == [kind |-> "undefined"]

CcnError(type, retryable, statusCode, retryAfter) ==
    [kind |-> "CcnError", type |-> type, retryable |-> retryable,
     statusCode |-> statusCode, retryAfter |-> retryAfter]

\* error.code and error.status: "" and 0 stand for undefined.
NoCode == ""
NoStatus == 0

\* An error.code that is a number, not a string.
NumericCode == "<number>"

\* The tails of the codes, to decide code.startsWith('E').
CodeTails ==
    {"TIMEDOUT", "SOCKETTIMEDOUT", "CONNRESET", "NOTFOUND"}

startsWith(str, prefix) == \E tail \in CodeTails : str = prefix \o tail

\* A thrown null or undefined has no .code to read; any other object that
\* is not a client error (a TypeError) has neither code nor status.
fromNotionError(error) ==
    IF error.kind \in {"null", "undefined"} THEN TypeError
    ELSE LET e == IF error.kind = "raw" THEN error
                  ELSE Raw(NoCode, NoStatus, NoHeader)
    IN  IF e.code = "unauthorized" \/ e.status = 401
        THEN CcnError("Auth", FALSE, 401, NoHeader)
        ELSE IF e.code = "rate_limited" \/ e.status = 429
        THEN CcnError("RateLimit", TRUE, 429, e.retryAfter)
        ELSE IF e.code = "object_not_found" \/ e.status = 404
        THEN CcnError("NotFound", FALSE, 404, NoHeader)
        ELSE IF e.code = "ETIMEDOUT" \/ e.code = "ESOCKETTIMEDOUT"
        THEN CcnError("Timeout", TRUE, NoStatus, NoHeader)
        ELSE IF e.code = NumericCode
        THEN TypeError  \* error.code?.startsWith is not a function
        ELSE IF startsWith(e.code, "E") \/ e.status >= 500
        THEN CcnError("Network", TRUE, e.status, NoHeader)
        ELSE CcnError("Unknown", FALSE, e.status, NoHeader)

(***************************************************************************)
(* NotionRoadmapManager.executeWithRetry                                   *)
(***************************************************************************)
\* The error the timeout promise rejects with.
\* Mutant: the timeout promise rejects with an error that is not retryable.
TimeoutError_fatal == CcnError("Timeout", FALSE, NoStatus, NoHeader)

\* The error the timeout promise rejects with.
TimeoutError == CcnError("Timeout", TRUE, NoStatus, NoHeader)

Min(a, b) == IF a <= b THEN a ELSE b

RECURSIVE Pow2(_)
Pow2(n) == IF n <= 0 THEN 1 ELSE 2 * Pow2(n - 1)

\* Mutant: every delay is minDelayMs.
baseDelay_constant(attempt) ==
    Min(enterprise.retries.minDelayMs, enterprise.retries.maxDelayMs)

\* Mutant: the exponential delay is not capped.
baseDelay_uncapped(attempt) ==
    enterprise.retries.minDelayMs * Pow2(attempt - 1)

\* `Math.min(minDelayMs * Math.pow(2, attempt - 1), maxDelayMs)`
baseDelay(attempt) ==
    Min(enterprise.retries.minDelayMs * Pow2(attempt - 1),
        enterprise.retries.maxDelayMs)

\* baseDelay * 0.1 * Math.random(), with Math.random() in [0, 1).
JitterOf(base) ==
    IF enterprise.retries.jitter
    THEN {j \in 0..base : 10 * j < base} \cup {0}
    ELSE {0}

\* Mutant: the Retry-After delay is capped by maxDelayMs.
delayOf_capped(attempt, ccnError, j) ==
    IF enterprise.retries.respectRetryAfter /\ ccnError.retryAfter # NoHeader
    THEN Min(ccnError.retryAfter * 1000, enterprise.retries.maxDelayMs)
    ELSE baseDelay(attempt) + j

\* The delay slept after a failed attempt: the Retry-After header (a string
\* of digits, so "0" too is a value) in seconds when it is honoured and
\* present, else the backoff with jitter j.
delayOf(attempt, ccnError, j) ==
    IF enterprise.retries.respectRetryAfter /\ ccnError.retryAfter # NoHeader
    THEN ccnError.retryAfter * 1000
    ELSE baseDelay(attempt) + j

\* `error instanceof CcnError ? error : CcnError.fromNotionError(error)`
classify(error) ==
    IF error.kind = "CcnError" THEN error ELSE fromNotionError(error)

\* Mutant: the loop gives up when one attempt is still left.
shouldThrow_early(attempt, ccnError) ==
    ~ccnError.retryable \/ attempt + 1 >= enterprise.retries.attempts

\* Mutant: the last attempt is told one attempt late.
shouldThrow_late(attempt, ccnError) ==
    ~ccnError.retryable \/ attempt >= enterprise.retries.attempts + 1

\* Mutant: a non-retryable error is retried while attempts remain.
shouldThrow_ignoreRetryable(attempt, ccnError) ==
    attempt = enterprise.retries.attempts

\* `if (!ccnError.retryable || attempt === attempts) throw ccnError`
shouldThrow(attempt, ccnError) ==
    ~ccnError.retryable \/ attempt = enterprise.retries.attempts

\* The catch block of the loop for the failure `error` of attempt `attempt`:
\* what is thrown to the caller, or the delay to sleep before the next
\* attempt.  A classifier that throws leaves the catch block with its error.
catchBlock(attempt, error, j) ==
    LET ccnError == classify(error)
    IN  IF ccnError.kind # "CcnError"
        THEN [throw |-> TRUE, error |-> ccnError, delay |-> 0]
        ELSE IF shouldThrow(attempt, ccnError)
        THEN [throw |-> TRUE, error |-> ccnError, delay |-> 0]
        ELSE [throw |-> FALSE, error |-> ccnError,
              delay |-> delayOf(attempt, ccnError, j)]

\* Every base delay the policy can produce, to draw the jitter from.
Jitters == UNION {JitterOf(baseDelay(a)) : a \in 1..(MaxAttempts + 1)}

(***************************************************************************)
(* The manager's public operations: state                                  *)
(***************************************************************************)
\* The callers of the manager's public operations.
MgrCalls == {"a"}

NoLoop == [pc |-> "none", attempt |-> 0, delay |-> 0]

\* A taskIdentifier: its text, and what updateTask looks at (its length and
\* whether it includes a '-').
TaskIdentifier(text, length, hasDash) ==
    [text |-> text, length |-> length, hasDash |-> hasDash]

NoIdent == TaskIdentifier("", 0, FALSE)

NoBody == [step |-> "none", inner |-> NoLoop]

\* A caller with no call made yet.  writes, remoteCalls and sleeps count the
\* pages.update requests carried out, the requests sent to the API and the
\* sleeps of the call; failuresCounted counts the runs of
\* CircuitBreaker.onFailure made on the call's behalf; orphans are the
\* requests of attempts that a timeout has abandoned and that still run;
\* retriedOpen tells that the outer loop went to sleep on a CircuitOpen
\* error.
IdleCall ==
    [pc |-> "idle", op |-> "none", ident |-> NoIdent,
     status |-> "", pageId |-> "", loop |-> NoLoop, body |-> NoBody,
     result |-> ThrownUndefined, writes |-> 0, remoteCalls |-> 0,
     sleeps |-> 0, skipped |-> FALSE, failuresCounted |-> 0,
     wdAtStart |-> FALSE, ndAtStart |-> FALSE, endedAt |-> 0,
     orphans |-> <<>>, retriedOpen |-> FALSE]

NoPrevUpd == [valid |-> FALSE, pageId |-> "", status |-> "", at |-> 0]

\* No record made and no lookup made.
NoLookups == [recorded |-> {}, looked |-> FALSE, pageId |-> "", status |-> "",
              hit |-> FALSE]

\* The correlation id `ccn-${Date.now()}-${hex}`: a time and four random
\* bytes.
CorrelationId(t, r) == [t |-> t, r |-> r]

\* A manager with no call traced.
NoTrace == [id |-> CorrelationId(0, 0), calls |-> <<>>]

\* The classifier not called.
NoClassify == [pc |-> "idle", error |-> ThrownUndefined,
               result |-> ThrownUndefined]

\* batchUpdate not called.
NoBatch == [pc |-> "idle", updates |-> <<>>,
            options |-> [concurrency |-> 0, continueOnError |-> FALSE],
            concurrency |-> 0, i |-> 0, pending |-> {},
            succeeded |-> <<>>, failed |-> <<>>, rejected |-> {}]

\* No updateTask call of the concurrent callers has started.
IdleUpdate == [pc |-> "idle", settled |-> "none", pageId |-> "", status |-> "",
               skip |-> FALSE, startedAt |-> 0, id |-> 0, with |-> {}]

NoUpdates == [calls |-> [c \in Calls |-> IdleUpdate], writes |-> <<>>,
              started |-> 0]

\* What the layers that do not trace, classify, batch or race keep fixed.
NoSide ==
    /\ tr = NoTrace
    /\ cl = NoClassify
    /\ batch = NoBatch
    /\ ut = NoUpdates

\* The manager's variables in the specifications that do not use it.
NoManager ==
    /\ env = [writeDisabled |-> FALSE, networkDisabled |-> FALSE]
    /\ cache = {}
    /\ mc = [c \in MgrCalls |-> IdleCall]
    /\ opsLeft = 0
    /\ prevUpd = NoPrevUpd
    /\ cx = NoLookups
    /\ NoSide

(***************************************************************************)
(* Concurrent callers of CircuitBreaker.execute with an opaque operation.  *)
(***************************************************************************)
Event(type, c, result) == [type |-> type, c |-> c, result |-> result]

\* The retry policy and timeouts (the constructor's defaults are 3 attempts,
\* delays of 1000 to 30000 ms, jitter, and a 15000 ms request timeout).
Enterprise(attempts, jitter, respectRetryAfter) ==
    [retries |-> [attempts |-> attempts, minDelayMs |-> MinDelayMs,
                  maxDelayMs |-> MaxDelayMs, jitter |-> jitter,
                  respectRetryAfter |-> respectRetryAfter],
     timeout |-> [requestTimeoutMs |-> RequestTimeoutMs,
                  globalTimeoutMs |-> GlobalTimeoutMs],
     idempotency |-> [enabled |-> FALSE, ttlMs |-> TtlMs],
     dryRun |-> FALSE]

DefaultEnterprise == Enterprise(MaxAttempts, TRUE, TRUE)

\* No executeWithRetry run has started.
IdleRun == [pc |-> "idle", attempt |-> 0, started |-> 0, delay |-> 0,
            orphans |-> 0, outcome |-> ThrownUndefined]

\* What the run has done so far: the invocations of the operation and their
\* start times, the delays slept, the failure the last catch block received,
\* and how the attempt that ended last ended ("resolved", "rejected" or
\* "timeout") and after how long; atOnceNetwork: every attempt ended so far
\* was rejected by the operation at once with a Network error.
NoHistory == [invocations |-> 0, allRetryable |-> TRUE,
              lastFailure |-> ThrownUndefined, sleeps |-> <<>>, starts |-> <<>>,
              lastEnd |-> "none", lastElapsed |-> 0, atOnceNetwork |-> TRUE]

Init ==
    /\ cb = NewBreaker
    /\ config \in [enabled : BOOLEAN,
                   failureThreshold : 1..MaxFailureThreshold,
                   successThreshold : 1..MaxSuccessThreshold,
                   resetTimeoutMs : {ResetTimeoutMs}]
    /\ now = 0
    /\ inflight = [c \in Calls |-> "idle"]
    /\ pre = NewBreaker
    /\ ev = Event("init", "a", "none")
    /\ streak = 0
    /\ streakAt = 0
    /\ hoSucc = 0
    /\ stale = [c \in Calls |-> FALSE]
    /\ enterprise = DefaultEnterprise
    /\ rx = IdleRun
    /\ hist = NoHistory
    /\ NoManager

\* execute(operation) up to its first await: returns operation() directly
\* when the breaker is disabled, throws CircuitOpen when it is OPEN and the
\* reset timer has not elapsed, and invokes the operation otherwise.
Execute(c) ==
    /\ inflight[c] = "idle"
    /\ pre' = cb
    /\ IF ~config.enabled
       THEN /\ cb' = cb
            /\ inflight' = [inflight EXCEPT ![c] = "running"]
            /\ ev' = Event("admit", c, "none")
            /\ hoSucc' = hoSucc
            /\ stale' = stale
       ELSE LET g == executeGate(cb, now)
            IN  /\ cb' = g.cb
                /\ hoSucc' = IF cb.state = "OPEN" /\ g.cb.state = "HALF_OPEN"
                             THEN 0 ELSE hoSucc
                /\ stale' = [d \in Calls |->
                                IF d = c THEN FALSE
                                ELSE IF cb.state = "OPEN"
                                        /\ g.cb.state = "HALF_OPEN"
                                        /\ inflight[d] = "running"
                                THEN TRUE ELSE stale[d]]
                /\ IF g.open
                   THEN /\ inflight' = inflight
                        /\ ev' = Event("reject", c, "CircuitOpen")
                   ELSE /\ inflight' = [inflight EXCEPT ![c] = "running"]
                        /\ ev' = Event("admit", c, "none")
    /\ UNCHANGED <<config, now, streak, streakAt, retryVars, mgrVars>>

\* The awaited operation resolves: onSuccess, and the result is returned.
OpSucceeds(c) ==
    /\ inflight[c] = "running"
    /\ pre' = cb
    /\ cb' = IF config.enabled THEN onSuccess(cb) ELSE cb
    /\ inflight' = [inflight EXCEPT ![c] = "idle"]
    /\ ev' = Event("success", c, "ok")
    /\ streak' = 0
    /\ hoSucc' = IF config.enabled /\ cb.state = "HALF_OPEN"
                 THEN hoSucc + 1 ELSE hoSucc
    /\ UNCHANGED <<config, now, streakAt, stale, retryVars, mgrVars>>

\* Mutant: a failure is counted although the breaker is disabled.
OpFails_alwaysTracks(c) ==
    /\ inflight[c] = "running"
    /\ pre' = cb
    /\ cb' = onFailure(cb, now)
    /\ inflight' = [inflight EXCEPT ![c] = "idle"]
    /\ ev' = Event("failure", c, "OpError")
    /\ streak' = IF config.enabled THEN streak + 1 ELSE streak
    /\ streakAt' = IF config.enabled THEN now ELSE streakAt
    /\ UNCHANGED <<config, now, hoSucc, stale, retryVars, mgrVars>>

\* The awaited operation rejects: onFailure, and the error is rethrown.
OpFails(c) ==
    /\ inflight[c] = "running"
    /\ pre' = cb
    /\ cb' = IF config.enabled THEN onFailure(cb, now) ELSE cb
    /\ inflight' = [inflight EXCEPT ![c] = "idle"]
    /\ ev' = Event("failure", c, "OpError")
    /\ streak' = IF config.enabled THEN streak + 1 ELSE streak
    /\ streakAt' = IF config.enabled THEN now ELSE streakAt
    /\ UNCHANGED <<config, now, hoSucc, stale, retryVars, mgrVars>>

\* reset(), called by the operator (NotionRoadmapManager.resetCircuit).
Reset ==
    /\ pre' = cb
    /\ cb' = reset(cb)
    /\ ev' = Event("reset", "a", "none")
    /\ streak' = 0
    /\ hoSucc' = 0
    /\ UNCHANGED <<config, now, inflight, streakAt, stale, retryVars, mgrVars>>

\* Time passes.
Tick ==
    /\ now < MaxTime
    /\ now' = now + 1
    /\ pre' = cb
    /\ ev' = Event("tick", "a", "none")
    /\ UNCHANGED <<cb, config, inflight, streak, streakAt, hoSucc, stale, retryVars, mgrVars>>

Next ==
    \/ \E c \in Calls : Execute(c)
    \/ \E c \in Calls : OpSucceeds(c)
    \/ \E c \in Calls : OpFails(c)
    \/ Reset
    \/ Tick

Spec == Init /\ [][Next]_vars

(***************************************************************************)
(* Claims about the breaker, checked under Spec.                           *)
(***************************************************************************)
Began == ev.type \in {"admit", "reject"}

\* C1: with the breaker enabled and failureThreshold = N, the N-th failed
\* call in a row (no success or reset in between) leaves the breaker OPEN,
\* and an execute call that arrives less than resetTimeoutMs after the last
\* of these failures is rejected with CircuitOpen and its operation is not
\* invoked.
C1_TripsAndFailsFast ==
    (config.enabled /\ streak >= config.failureThreshold) =>
        /\ ev.type = "failure" => cb.state = "OPEN"
        /\ (Began /\ now < streakAt + config.resetTimeoutMs) =>
               /\ ev.type = "reject"
               /\ ev.result = "CircuitOpen"
               /\ inflight[ev.c] = "idle"
               /\ cb.state = "OPEN"

C1_Witness ==
    /\ config.enabled
    /\ config.failureThreshold = MaxFailureThreshold
    /\ streak = config.failureThreshold
    /\ pre.failureCount = config.failureThreshold
    /\ ev.type = "reject"
    /\ now > streakAt

\* C2: a step that changes the breaker's state is one of CLOSED -> OPEN by a
\* failure that brings failureCount to failureThreshold, OPEN -> HALF_OPEN
\* by an arriving call with now >= nextRetryTime, HALF_OPEN -> CLOSED by a
\* success that brings successCount to successThreshold, HALF_OPEN -> OPEN
\* by a failure, or reset() forcing CLOSED.
C2_OnlyFourTransitions ==
    pre.state # cb.state =>
        \/ ev.type = "reset" /\ cb.state = "CLOSED"
        \/ /\ pre.state = "CLOSED" /\ cb.state = "OPEN"
           /\ ev.type = "failure"
           /\ cb.failureCount >= config.failureThreshold
        \/ /\ pre.state = "OPEN" /\ cb.state = "HALF_OPEN"
           /\ ev.type = "admit"
           /\ pre.nextRetryTime # NoTime
           /\ now >= pre.nextRetryTime
        \/ /\ pre.state = "HALF_OPEN" /\ cb.state = "CLOSED"
           /\ ev.type = "success"
           /\ pre.successCount + 1 >= config.successThreshold
        \/ /\ pre.state = "HALF_OPEN" /\ cb.state = "OPEN"
           /\ ev.type = "failure"

\* Two calls in flight at once, and the state changes under them.
C2_Witness ==
    /\ pre.state = "HALF_OPEN" /\ cb.state = "CLOSED"
    /\ ev.type = "success"
    /\ \E c \in Calls : inflight[c] = "running"

\* C7: a call arriving at an OPEN breaker with now >= nextRetryTime moves it
\* to HALF_OPEN with successCount = 0 and its operation is invoked; with
\* now < nextRetryTime the breaker stays OPEN and the operation is not
\* invoked.
C7_OpenGate ==
    (config.enabled /\ Began /\ pre.state = "OPEN") =>
        IF now >= pre.nextRetryTime
        THEN /\ cb.state = "HALF_OPEN"
             /\ cb.successCount = 0
             /\ ev.type = "admit"
             /\ inflight[ev.c] = "running"
        ELSE /\ cb.state = "OPEN"
             /\ ev.type = "reject"
             /\ inflight[ev.c] = "idle"

\* The call is let through at exactly now = nextRetryTime, and a
\* successCount left over from the previous trial is cleared.
C7_Witness ==
    /\ config.enabled /\ Began /\ pre.state = "OPEN"
    /\ now = pre.nextRetryTime
    /\ pre.successCount > 0
    /\ cb.state = "HALF_OPEN"

\* C8: a failure while HALF_OPEN returns the breaker to OPEN whatever the
\* counters are, with nextRetryTime = time of the failure + resetTimeoutMs.
C8_TrialFailureReopens ==
    (config.enabled /\ ev.type = "failure" /\ pre.state = "HALF_OPEN") =>
        /\ cb.state = "OPEN"
        /\ cb.nextRetryTime = now + config.resetTimeoutMs

\* A trial failure with failureCount still below the threshold.
C8_Witness ==
    /\ config.enabled /\ ev.type = "failure" /\ pre.state = "HALF_OPEN"
    /\ cb.failureCount < config.failureThreshold
    /\ cb.state = "OPEN"

\* C9: a HALF_OPEN breaker is closed by execute exactly when the number of
\* calls that succeeded since it entered HALF_OPEN reaches successThreshold,
\* failureCount is 0 at that moment, and with fewer successes it stays
\* HALF_OPEN.
C9_ClosesAtSuccessThreshold ==
    config.enabled =>
        /\ (ev.type = "success" /\ pre.state = "HALF_OPEN") =>
               /\ cb.state = (IF hoSucc >= config.successThreshold
                              THEN "CLOSED" ELSE "HALF_OPEN")
               /\ cb.state = "CLOSED" => cb.failureCount = 0
        /\ (pre.state = "HALF_OPEN" /\ cb.state = "CLOSED" /\ ev.type # "reset")
               => (ev.type = "success" /\ hoSucc = config.successThreshold)
        /\ cb.state = "HALF_OPEN" => hoSucc < config.successThreshold

C9_Witness ==
    /\ config.enabled
    /\ config.successThreshold = MaxSuccessThreshold
    /\ ev.type = "success" /\ pre.state = "HALF_OPEN"
    /\ cb.state = "CLOSED"
    /\ hoSucc = config.successThreshold

(***************************************************************************)
(* One run of executeWithRetry on an opaque operation.                     *)
(***************************************************************************)
\* The failures the operation is made to reject with.
Failures ==
    { Raw(NoCode, 401, NoHeader),
      Raw(NoCode, 429, NoHeader),
      Raw("object_not_found", 404, NoHeader),
      Raw("ETIMEDOUT", NoStatus, NoHeader),
      Raw("ECONNRESET", NoStatus, NoHeader),
      Raw(NoCode, 503, 1),
      Raw(NoCode, 400, NoHeader),
      Raw(NoCode, NoStatus, NoHeader),
      Raw(NumericCode, NoStatus, NoHeader),
      ThrownNull,
      CcnError("Validation", FALSE, NoStatus, NoHeader),
      CcnError("CircuitOpen", TRUE, NoStatus, NoHeader) }
    \cup {Raw("rate_limited", 429, n) : n \in 0..MaxRetryAfter}

Ok == [kind |-> "ok"]

InitRetry ==
    /\ cb = NewBreaker
    /\ config = [enabled |-> TRUE, failureThreshold |-> MaxFailureThreshold,
                 successThreshold |-> MaxSuccessThreshold,
                 resetTimeoutMs |-> ResetTimeoutMs]
    /\ now = 0
    /\ inflight = [c \in Calls |-> "idle"]
    /\ pre = NewBreaker
    /\ ev = Event("init", "a", "none")
    /\ streak = 0
    /\ streakAt = 0
    /\ hoSucc = 0
    /\ stale = [c \in Calls |-> FALSE]
    /\ enterprise \in {Enterprise(a, j, r) :
                         a \in 0..MaxAttempts, j \in BOOLEAN, r \in BOOLEAN}
    /\ rx = IdleRun
    /\ hist = NoHistory
    /\ NoManager

\* The loop enters attempt `attempt`: operation() is invoked and raced
\* against the timeout promise.
invoke(attempt, t) ==
    /\ rx' = [rx EXCEPT !.pc = "awaiting", !.attempt = attempt,
                        !.started = t, !.delay = 0]
    /\ hist' = [hist EXCEPT !.invocations = @ + 1,
                            !.starts = Append(@, t),
                            !.lastEnd = "none", !.lastElapsed = 0]

\* The attempt failed with `error` (the catch block).
caught(error, j, orphaned) ==
    LET c == catchBlock(rx.attempt, error, j)
        elapsed == now' - rx.started
        lost == IF orphaned THEN 1 ELSE 0
    IN  /\ rx' = IF c.throw
                 THEN [rx EXCEPT !.pc = "thrown", !.outcome = c.error,
                                 !.orphans = @ + lost]
                 ELSE [rx EXCEPT !.pc = "sleeping", !.delay = c.delay,
                                 !.orphans = @ + lost]
        /\ hist' = [hist EXCEPT
                      !.lastFailure = error,
                      !.lastEnd = IF orphaned THEN "timeout" ELSE "rejected",
                      !.lastElapsed = elapsed,
                      !.atOnceNetwork = /\ @
                                        /\ ~orphaned
                                        /\ elapsed = 0
                                        /\ c.error.kind = "CcnError"
                                        /\ c.error.type = "Network",
                      !.allRetryable = @ /\ c.error.kind = "CcnError"
                                         /\ c.error.retryable,
                      !.sleeps = IF c.throw THEN @ ELSE Append(@, c.delay)]

\* executeWithRetry is called: the first attempt starts, or, with no
\* attempt allowed, the loop body never runs and lastError is thrown.
StartRun ==
    /\ rx.pc = "idle"
    /\ IF enterprise.retries.attempts >= 1
       THEN invoke(1, now)
       ELSE /\ rx' = [rx EXCEPT !.pc = "thrown", !.outcome = ThrownUndefined]
            /\ hist' = hist
    /\ UNCHANGED <<now, enterprise, breakerVars, ev, mgrVars>>

\* The operation resolves before the timeout: its result is returned.
OpResolves ==
    /\ rx.pc = "awaiting"
    /\ \E d \in 0..(enterprise.timeout.requestTimeoutMs - 1) :
          now' = rx.started + d
    /\ rx' = [rx EXCEPT !.pc = "returned", !.outcome = Ok]
    /\ hist' = [hist EXCEPT !.lastEnd = "resolved",
                            !.lastElapsed = now' - rx.started,
                            !.atOnceNetwork = FALSE]
    /\ UNCHANGED <<enterprise, breakerVars, ev, mgrVars>>

\* The operation rejects before the timeout.
OpRejects ==
    /\ rx.pc = "awaiting"
    /\ \E d \in 0..(enterprise.timeout.requestTimeoutMs - 1) :
          now' = rx.started + d
    /\ \E error \in Failures, j \in JitterOf(baseDelay(rx.attempt)) :
          caught(error, j, FALSE)
    /\ UNCHANGED <<enterprise, breakerVars, ev, mgrVars>>

\* The timeout promise rejects first; the operation is left running.
TimerFires ==
    /\ rx.pc = "awaiting"
    /\ now' = rx.started + enterprise.timeout.requestTimeoutMs
    /\ \E j \in JitterOf(baseDelay(rx.attempt)) :
          caught(TimeoutError, j, TRUE)
    /\ UNCHANGED <<enterprise, breakerVars, ev, mgrVars>>

\* sleep(delay) is over: the next attempt.
SleepEnds ==
    /\ rx.pc = "sleeping"
    /\ now' = now + rx.delay
    /\ invoke(rx.attempt + 1, now')
    /\ UNCHANGED <<enterprise, breakerVars, ev, mgrVars>>

\* An operation left behind by a timeout settles; nobody awaits it.
OrphanSettles ==
    /\ rx.orphans > 0
    /\ rx' = [rx EXCEPT !.orphans = @ - 1]
    /\ UNCHANGED <<now, hist, enterprise, breakerVars, ev, mgrVars>>

NextRetry ==
    \/ StartRun
    \/ OpResolves
    \/ OpRejects
    \/ TimerFires
    \/ SleepEnds
    \/ OrphanSettles

SpecRetry == InitRetry /\ [][NextRetry]_vars

(***************************************************************************)
(* Claims about executeWithRetry, checked under SpecRetry.                 *)
(***************************************************************************)
Classified(error) ==
    classify(error).kind = "CcnError"

\* C4: for every maxAttempts >= 1, when every attempt has failed with a
\* retryable error and the run has ended, the operation was invoked
\* exactly maxAttempts times and the error thrown is the classification of
\* the last attempt's failure; until then no more than maxAttempts
\* invocations are made.
C4_ExhaustsAllAttempts ==
    (enterprise.retries.attempts >= 1 /\ hist.allRetryable) =>
        /\ hist.invocations <= enterprise.retries.attempts
        /\ rx.pc = "thrown" =>
              /\ hist.invocations = enterprise.retries.attempts
              /\ rx.outcome = classify(hist.lastFailure)
              /\ rx.outcome.retryable

C4_Witness ==
    /\ enterprise.retries.attempts = MaxAttempts
    /\ hist.allRetryable
    /\ rx.pc = "thrown"
    /\ hist.invocations = MaxAttempts
    /\ hist.lastFailure.kind = "raw"
    /\ rx.outcome.type = "Network"

\* C5: for every maxAttempts >= 1, an attempt that fails with an error
\* classified non-retryable ends the run at once with that classified
\* error: no further invocation and no sleep follow it, so when it is the
\* first attempt the operation was invoked once and nothing was slept.
C5_NonRetryableStopsAtOnce ==
    (/\ enterprise.retries.attempts >= 1
     /\ hist.invocations >= 1
     /\ Classified(hist.lastFailure)
     /\ ~classify(hist.lastFailure).retryable) =>
        /\ rx.pc = "thrown"
        /\ rx.outcome = classify(hist.lastFailure)
        /\ rx.outcome.type \in {"Auth", "NotFound", "Validation", "Unknown"}
        /\ hist.invocations = rx.attempt
        /\ Len(hist.sleeps) = rx.attempt - 1
        /\ rx.attempt = 1 => (hist.invocations = 1 /\ hist.sleeps = <<>>)

C5_Witness ==
    /\ enterprise.retries.attempts = MaxAttempts
    /\ rx.pc = "thrown"
    /\ rx.attempt = 1
    /\ hist.invocations = 1
    /\ hist.lastFailure.kind = "raw"
    /\ rx.outcome.type = "Auth"

(***************************************************************************)
(* The idempotency cache                                                   *)
(***************************************************************************)
\* JSON.stringify({ status })
stringify(status) == "{\"status\":\"" \o status \o "\"}"

\* The key updateTask looks up: `${pageId}-updateStatus-${status}`
idempotencyKey(pageId, status) == pageId \o "-updateStatus-" \o status

\* The key recordIdempotency stores: `${pageId}-${operation}-${payloadHash}`
recordKey(pageId, operation, payloadHash) ==
    pageId \o "-" \o operation \o "-" \o payloadHash

\* Mutant: an expired entry is reported as a miss but left in the cache.
checkIdempotency_keepsExpired(cch, key, t) ==
    [hit |-> /\ enterprise.idempotency.enabled
             /\ \E e \in cch : /\ e.key = key
                                /\ t - e.timestamp <= enterprise.idempotency.ttlMs,
     cache |-> cch]

\* checkIdempotency(key) at time t: whether the operation is to be skipped,
\* and the cache afterwards (an expired entry is deleted).
checkIdempotency(cch, key, t) ==
    IF ~enterprise.idempotency.enabled THEN [hit |-> FALSE, cache |-> cch]
    ELSE IF ~(\E e \in cch : e.key = key) THEN [hit |-> FALSE, cache |-> cch]
    ELSE LET cached == CHOOSE e \in cch : e.key = key
             age == t - cached.timestamp
         IN  IF age > enterprise.idempotency.ttlMs
             THEN [hit |-> FALSE, cache |-> cch \ {cached}]
             ELSE [hit |-> TRUE, cache |-> cch]

\* recordIdempotency(pageId, operation, { status }) at time t: the cache
\* afterwards (Map.set, then the sweep of the old entries).
recordIdempotency(cch, pageId, operation, status, t) ==
    IF ~enterprise.idempotency.enabled THEN cch
    ELSE LET payloadHash == stringify(status)
             key == recordKey(pageId, operation, payloadHash)
             set == {e \in cch : e.key # key} \cup
                    {[key |-> key, pageId |-> pageId, operation |-> operation,
                      payloadHash |-> payloadHash, timestamp |-> t]}
         IN  {e \in set : ~(t - e.timestamp > enterprise.idempotency.ttlMs)}

(***************************************************************************)
(* executeWithResilience and the bodies of the public operations.  The     *)
(* operators below take and return w = [cb, cache, m]: the breaker, the    *)
(* cache and the caller's call, as the synchronous code transforms them.   *)
(***************************************************************************)
\* search, list and getByStatus run one database query under
\* executeWithResilience; getStats calls list and updateTask calls search
\* from inside their own executeWithResilience.
DirectOps == {"search", "list", "getByStatus"}

PublicOps == DirectOps \cup {"getStats", "updateTask", "health"}

\* A page id (36 characters, with dashes) and a task name.
PageA == TaskIdentifier("59833787-2cf9-4fdf-8782-e53db20768a5", 36, TRUE)

NameA == TaskIdentifier("Fix login", 9, FALSE)

Identifiers == {PageA, NameA}

\* `taskIdentifier.includes('-') && taskIdentifier.length > 20`
isPageId(ident) == ident.hasDash /\ ident.length > 20

\* complete(), start(): updateTask with these statuses.
Statuses == {"Completed", "In progress"}

ValidationError == CcnError("Validation", FALSE, NoStatus, NoHeader)

NotFoundError == CcnError("NotFound", FALSE, NoStatus, NoHeader)

CircuitOpenError == CcnError("CircuitOpen", TRUE, NoStatus, NoHeader)

\* `return { id: 'dry-run', title: taskIdentifier, status }`
DryRunResult == [kind |-> "dry-run"]

\* Mutant: only CCN_WRITE_DISABLED makes updateTask a dry run.
isDryRun_switchOnly == env.writeDisabled

\* Mutant: only the dryRun option makes updateTask a dry run.
isDryRun_optionOnly == enterprise.dryRun

\* `this.enterprise.dryRun || getKillSwitches().writeDisabled`
isDryRun == enterprise.dryRun \/ env.writeDisabled

\* The tail of the outer CircuitBreaker.execute: onSuccess or onFailure,
\* and the call of the public operation settles with `outcome`.
breakerDone(w, ok, outcome) ==
    [w EXCEPT
       !.cb = IF ~config.enabled THEN @
              ELSE IF ok THEN onSuccess(@) ELSE onFailure(@, now),
       !.m = [@ EXCEPT !.pc = "done", !.result = outcome, !.loop = NoLoop,
                       !.body = NoBody, !.endedAt = now,
                       !.failuresCounted =
                           IF config.enabled /\ ~ok THEN @ + 1 ELSE @]]

\* The tail of the CircuitBreaker.execute of a nested search or list.
innerDone(w, ok) ==
    [w EXCEPT
       !.cb = IF ~config.enabled THEN @
              ELSE IF ok THEN onSuccess(@) ELSE onFailure(@, now),
       !.m.failuresCounted = IF config.enabled /\ ~ok THEN @ + 1 ELSE @]

\* The body of the operation rejected with `error`: the catch block of the
\* outer executeWithRetry.
outerCatch(w, error, j) ==
    LET c == catchBlock(w.m.loop.attempt, error, j)
    IN  IF c.throw THEN breakerDone(w, FALSE, c.error)
        ELSE [w EXCEPT !.m = [@ EXCEPT !.loop.pc = "sleeping",
                                       !.loop.delay = c.delay,
                                       !.body = NoBody,
                                       !.sleeps = @ + 1,
                                       !.retriedOpen =
                                           @ \/ error = CircuitOpenError]]

\* A remote request is sent by the body itself (not by a nested call).
ownRemote(w, step) ==
    [w EXCEPT !.m = [@ EXCEPT !.body = [step |-> step, inner |-> NoLoop],
                              !.remoteCalls = @ + 1]]

\* this.search(...) or this.list(...) called from a body: a nested
\* executeWithResilience, up to the first attempt's database query.
startInner(w, step, j) ==
    IF env.networkDisabled THEN outerCatch(w, ValidationError, j)
    ELSE LET g == IF config.enabled THEN executeGate(w.cb, now)
                  ELSE [cb |-> w.cb, open |-> FALSE]
             w1 == [w EXCEPT !.cb = g.cb]
         IN  IF g.open THEN outerCatch(w1, CircuitOpenError, j)
             ELSE [w1 EXCEPT
                     !.m = [@ EXCEPT
                              !.body = [step |-> step,
                                        inner |-> [pc |-> "remote",
                                                   attempt |-> 1,
                                                   delay |-> 0]],
                              !.remoteCalls = @ + 1]]

\* updateTask's body once the page id is known: the idempotency check, then
\* getTaskById for a duplicate, else the preflight pages.retrieve.
resolved(w, pageId) ==
    LET chk == checkIdempotency(w.cache, idempotencyKey(pageId, w.m.status), now)
        w1 == [w EXCEPT !.cache = chk.cache,
                        !.m = [@ EXCEPT !.pageId = pageId,
                                        !.skipped = chk.hit]]
    IN  ownRemote(w1, IF chk.hit THEN "getTaskById" ELSE "retrieve")

\* operation() is invoked by the outer executeWithRetry: the body runs up
\* to its first await of the network.
startBody(w, j) ==
    IF w.m.op \in DirectOps THEN ownRemote(w, "query")
    ELSE IF w.m.op = "getStats" THEN startInner(w, "list", j)
    ELSE IF isPageId(w.m.ident) THEN resolved(w, w.m.ident.text)
    ELSE startInner(w, "search", j)

\* executeWithResilience for the public operation: the network kill switch,
\* the breaker's gate, then attempt 1 of executeWithRetry.
executeWithResilience(w, j) ==
    IF env.networkDisabled
    THEN [w EXCEPT !.m = [@ EXCEPT !.pc = "done", !.result = ValidationError,
                                   !.endedAt = now]]
    ELSE LET g == IF config.enabled THEN executeGate(w.cb, now)
                  ELSE [cb |-> w.cb, open |-> FALSE]
             w1 == [w EXCEPT !.cb = g.cb]
         IN  IF g.open
             THEN [w1 EXCEPT !.m = [@ EXCEPT !.pc = "done",
                                             !.result = CircuitOpenError,
                                             !.endedAt = now]]
             ELSE IF enterprise.retries.attempts < 1
             THEN breakerDone(w1, FALSE, ThrownUndefined)
             ELSE startBody([w1 EXCEPT !.m.loop = [pc |-> "body",
                                                   attempt |-> 1,
                                                   delay |-> 0]], j)

\* health() returns this status, whatever validateSchema did.
HealthStatus(healthy) == [kind |-> "health", healthy |-> healthy]

\* health(): validateSchema's databases.retrieve has settled.
healthDone(w, healthy) ==
    [w EXCEPT !.m = [@ EXCEPT !.pc = "done", !.result = HealthStatus(healthy),
                              !.body = NoBody, !.endedAt = now]]

\* A public operation is called.  updateTask returns the dry-run placeholder
\* when writes are off; health() calls validateSchema directly; everything
\* else goes through executeWithResilience.
publicCall(w, j) ==
    IF w.m.op = "updateTask" /\ isDryRun
    THEN [w EXCEPT !.m = [@ EXCEPT !.pc = "done", !.result = DryRunResult,
                                   !.endedAt = now]]
    ELSE IF w.m.op = "health" THEN ownRemote(w, "schema")
    ELSE executeWithResilience(w, j)

(***************************************************************************)
(* Calls of the public operations, one step per event of the event loop.   *)
(***************************************************************************)
\* What a remote request of the manager is made to reject with: a network
\* error (retryable) and a 400 (not retryable).
RemoteFailures ==
    { Raw("ECONNRESET", NoStatus, NoHeader), Raw(NoCode, 400, NoHeader) }

World(c) == [cb |-> cb, cache |-> cache, m |-> mc[c]]

apply(c, w) ==
    /\ cb' = w.cb
    /\ cache' = w.cache
    /\ mc' = [mc EXCEPT ![c] = w.m]

mgrFrame ==
    <<config, enterprise, inflight, streak, streakAt, hoSucc, stale, rx, hist, cx,
      tr, cl, batch, ut>>

InitMgr ==
    /\ cb = NewBreaker
    /\ config \in [enabled : {TRUE},
                   failureThreshold : {MaxFailureThreshold},
                   successThreshold : {MaxSuccessThreshold},
                   resetTimeoutMs : {ResetTimeoutMs}]
    /\ now = 0
    /\ inflight = [c \in Calls |-> "idle"]
    /\ pre = NewBreaker
    /\ ev = Event("init", "a", "none")
    /\ streak = 0
    /\ streakAt = 0
    /\ hoSucc = 0
    /\ stale = [c \in Calls |-> FALSE]
    /\ enterprise \in
          {[Enterprise(a, FALSE, TRUE) EXCEPT !.idempotency.enabled = i,
                                              !.dryRun = d] :
             a \in 1..MaxMgrAttempts, i \in BOOLEAN, d \in BOOLEAN}
    /\ rx = IdleRun
    /\ hist = NoHistory
    /\ env = [writeDisabled |-> FALSE, networkDisabled |-> FALSE]
    /\ cache = {}
    /\ mc = [c \in MgrCalls |-> IdleCall]
    /\ opsLeft = MaxOps
    /\ prevUpd = NoPrevUpd
    /\ cx = NoLookups
    /\ NoSide

\* A manager whose breaker trips on the first failure and whose retry loop
\* allows MaxAttempts attempts, for one call.
InitNested ==
    /\ cb = NewBreaker
    /\ config = [enabled |-> TRUE, failureThreshold |-> 1,
                 successThreshold |-> MaxSuccessThreshold,
                 resetTimeoutMs |-> ResetTimeoutMs]
    /\ now = 0
    /\ inflight = [c \in Calls |-> "idle"]
    /\ pre = NewBreaker
    /\ ev = Event("init", "a", "none")
    /\ streak = 0
    /\ streakAt = 0
    /\ hoSucc = 0
    /\ stale = [c \in Calls |-> FALSE]
    /\ enterprise = Enterprise(MaxAttempts, FALSE, TRUE)
    /\ rx = IdleRun
    /\ hist = NoHistory
    /\ env = [writeDisabled |-> FALSE, networkDisabled |-> FALSE]
    /\ cache = {}
    /\ mc = [c \in MgrCalls |-> IdleCall]
    /\ opsLeft = 1
    /\ prevUpd = NoPrevUpd
    /\ cx = NoLookups
    /\ NoSide

\* Caller c calls search, list, getByStatus, getStats or updateTask.
StartCall(c) ==
    /\ opsLeft > 0
    /\ mc[c].pc # "running"
    /\ mc[c].orphans = <<>>
    /\ \E op \in PublicOps, ident \in Identifiers, status \in Statuses,
          j \in JitterOf(baseDelay(1)) :
          LET upd == (op = "updateTask")
              m0 == [IdleCall EXCEPT
                       !.pc = "running", !.op = op,
                       !.ident = IF upd THEN ident ELSE NoIdent,
                       !.status = IF upd THEN status ELSE "",
                       !.wdAtStart = env.writeDisabled,
                       !.ndAtStart = env.networkDisabled]
          IN  apply(c, publicCall([cb |-> cb, cache |-> cache, m |-> m0], j))
    /\ prevUpd' = IF mc[c].pc = "done" /\ mc[c].op = "updateTask"
                     /\ mc[c].result = Ok
                  THEN [valid |-> TRUE, pageId |-> mc[c].pageId,
                        status |-> mc[c].status, at |-> mc[c].endedAt]
                  ELSE NoPrevUpd
    /\ opsLeft' = opsLeft - 1
    /\ pre' = cb
    /\ ev' = Event("call", c, "none")
    /\ UNCHANGED <<now, env, mgrFrame>>

Awaiting(c) ==
    /\ mc[c].pc = "running"
    /\ mc[c].loop.pc = "body" \/ mc[c].body.step = "schema"
    /\ mc[c].body.inner.pc \in {"none", "remote"}

\* The remote request caller c awaits resolves, and the code runs on to the
\* next request or to the end of the call.  `found`: the search has a
\* result; `archived`: the retrieved page (or database) is archived.
RemoteResolves(c) ==
    /\ Awaiting(c)
    /\ \E found \in BOOLEAN, archived \in BOOLEAN,
          j \in JitterOf(baseDelay(mc[c].loop.attempt)) :
          LET w == World(c)
              step == w.m.body.step
          IN  apply(c,
                IF step = "schema" THEN healthDone(w, ~archived)
                ELSE IF step = "search"
                THEN IF found THEN resolved(innerDone(w, TRUE), PageA.text)
                     ELSE outerCatch(innerDone(w, TRUE), NotFoundError, j)
                ELSE IF step = "list"
                THEN breakerDone(innerDone(w, TRUE), TRUE, Ok)
                ELSE IF step = "retrieve"
                THEN IF archived THEN outerCatch(w, ValidationError, j)
                     ELSE ownRemote(w, "update")
                ELSE IF step = "update"
                THEN breakerDone(
                       [w EXCEPT
                          !.m.writes = @ + 1,
                          !.cache = recordIdempotency(@, w.m.pageId,
                                       "updateStatus", w.m.status, now)],
                       TRUE, Ok)
                ELSE breakerDone(w, TRUE, Ok))
    /\ pre' = cb
    /\ ev' = Event("resolve", c, "none")
    /\ UNCHANGED <<now, env, opsLeft, prevUpd, mgrFrame>>

\* The remote request caller c awaits rejects with `error`.  `applied`: a
\* rejected pages.update was nevertheless carried out by the server.
RemoteRejects(c) ==
    /\ Awaiting(c)
    /\ \E error \in RemoteFailures, applied \in BOOLEAN,
          j \in JitterOf(baseDelay(mc[c].loop.attempt)),
          k \in JitterOf(baseDelay(mc[c].body.inner.attempt)) :
          LET w == World(c)
              step == w.m.body.step
              ci == catchBlock(w.m.body.inner.attempt, error, k)
          IN  apply(c,
                IF step = "schema" THEN healthDone(w, FALSE)
                ELSE IF step \in {"search", "list"}
                THEN IF ci.throw
                     THEN outerCatch(innerDone(w, FALSE), ci.error, j)
                     ELSE [w EXCEPT !.m.body.inner.pc = "sleeping",
                                    !.m.body.inner.delay = ci.delay,
                                    !.m.sleeps = @ + 1]
                ELSE IF step = "update" /\ applied
                THEN outerCatch([w EXCEPT !.m.writes = @ + 1], error, j)
                ELSE outerCatch(w, error, j))
    /\ pre' = cb
    /\ ev' = Event("reject", c, "none")
    /\ UNCHANGED <<now, env, opsLeft, prevUpd, mgrFrame>>

\* The timeout promise of the outer executeWithRetry rejects while the
\* body awaits a request of its own: the attempt fails with a Timeout error
\* and the body, which nothing cancels, is left running.
AttemptTimesOut(c) ==
    /\ Awaiting(c)
    /\ mc[c].loop.pc = "body"
    /\ mc[c].body.inner.pc = "none"
    /\ Len(mc[c].orphans) < MaxOrphans
    /\ \E j \in JitterOf(baseDelay(mc[c].loop.attempt)) :
          LET w == World(c)
          IN  apply(c, outerCatch(
                         [w EXCEPT !.m.orphans = Append(@, w.m.body.step)],
                         TimeoutError, j))
    /\ pre' = cb
    /\ ev' = Event("timeout", c, "none")
    /\ UNCHANGED <<now, env, opsLeft, prevUpd, mgrFrame>>

\* The sequence `seq` without its i-th element.
Without(seq, i) == SubSeq(seq, 1, i - 1) \o SubSeq(seq, i + 1, Len(seq))

\* The request an abandoned body awaits resolves: the body runs on (from
\* the preflight to pages.update, from pages.update to recordIdempotency)
\* and its result is dropped.
LateResolves(c) ==
    /\ \E i \in 1..Len(mc[c].orphans), archived \in BOOLEAN :
          LET step == mc[c].orphans[i]
          IN  IF step = "retrieve" /\ ~archived
              THEN /\ mc' = [mc EXCEPT ![c].orphans[i] = "update",
                                       ![c].remoteCalls = @ + 1]
                   /\ cache' = cache
              ELSE IF step = "update"
              THEN /\ mc' = [mc EXCEPT ![c].orphans = Without(@, i),
                                       ![c].writes = @ + 1]
                   /\ cache' = recordIdempotency(cache, mc[c].pageId,
                                   "updateStatus", mc[c].status, now)
              ELSE /\ mc' = [mc EXCEPT ![c].orphans = Without(@, i)]
                   /\ cache' = cache
    /\ pre' = cb
    /\ ev' = Event("late", c, "none")
    /\ UNCHANGED <<cb, now, env, opsLeft, prevUpd, mgrFrame>>

\* The request an abandoned body awaits rejects: the body throws to nobody.
LateRejects(c) ==
    /\ \E i \in 1..Len(mc[c].orphans) :
          mc' = [mc EXCEPT ![c].orphans = Without(@, i)]
    /\ pre' = cb
    /\ ev' = Event("late", c, "none")
    /\ UNCHANGED <<cb, cache, now, env, opsLeft, prevUpd, mgrFrame>>

\* The sleep of the nested search or list is over: its next attempt.
InnerSleepEnds(c) ==
    /\ mc[c].pc = "running"
    /\ mc[c].body.inner.pc = "sleeping"
    /\ mc' = [mc EXCEPT ![c].body.inner.pc = "remote",
                        ![c].body.inner.attempt = @ + 1,
                        ![c].body.inner.delay = 0,
                        ![c].remoteCalls = @ + 1]
    /\ pre' = cb
    /\ ev' = Event("wake", c, "none")
    /\ UNCHANGED <<cb, cache, now, env, opsLeft, prevUpd, mgrFrame>>

\* The sleep of the outer executeWithRetry is over: the operation is invoked
\* again.
OuterSleepEnds(c) ==
    /\ mc[c].pc = "running"
    /\ mc[c].loop.pc = "sleeping"
    /\ \E j \in JitterOf(baseDelay(mc[c].loop.attempt + 1)) :
          LET w == World(c)
          IN  apply(c, startBody([w EXCEPT !.m.loop = [pc |-> "body",
                                                       attempt |-> @.attempt + 1,
                                                       delay |-> 0]], j))
    /\ pre' = cb
    /\ ev' = Event("wake", c, "none")
    /\ UNCHANGED <<now, env, opsLeft, prevUpd, mgrFrame>>

\* CCN_WRITE_DISABLED or CCN_NETWORK_DISABLED is changed between two calls.
SetEnv ==
    /\ \A c \in MgrCalls : mc[c].pc # "running"
    /\ \E w \in BOOLEAN, n \in BOOLEAN :
          /\ env' = [writeDisabled |-> w, networkDisabled |-> n]
          /\ env' # env
    /\ pre' = cb
    /\ ev' = Event("env", "a", "none")
    /\ UNCHANGED <<cb, cache, mc, now, opsLeft, prevUpd, mgrFrame>>

\* Time passes.
TickMgr ==
    /\ now < MaxMgrTime
    /\ now' = now + 1
    /\ pre' = cb
    /\ ev' = Event("tick", "a", "none")
    /\ UNCHANGED <<cb, cache, mc, env, opsLeft, prevUpd, mgrFrame>>

NextMgr ==
    \/ \E c \in MgrCalls : StartCall(c)
    \/ \E c \in MgrCalls : RemoteResolves(c)
    \/ \E c \in MgrCalls : RemoteRejects(c)
    \/ \E c \in MgrCalls : InnerSleepEnds(c)
    \/ \E c \in MgrCalls : OuterSleepEnds(c)
    \/ \E c \in MgrCalls : AttemptTimesOut(c)
    \/ \E c \in MgrCalls : LateResolves(c)
    \/ \E c \in MgrCalls : LateRejects(c)
    \/ SetEnv
    \/ TickMgr

SpecMgr == InitMgr /\ [][NextMgr]_vars

SpecNested == InitNested /\ [][NextMgr]_vars

(***************************************************************************)
(* Claims about the public operations.                                     *)
(***************************************************************************)
\* The call ended by throwing (health() never throws).
Failed(m) ==
    /\ m.pc = "done"
    /\ m.result.kind \in {"CcnError", "TypeError", "undefined", "null"}

\* C3: with idempotency enabled, an updateTask call for the page and the
\* status of the updateTask call that succeeded just before it, ending
\* within ttlMs of that success, carries out no pages.update of its own.
C3_SecondCallSkipsWrite ==
    \A c \in MgrCalls :
        ( /\ enterprise.idempotency.enabled
          /\ prevUpd.valid
          /\ mc[c].pc = "done"
          /\ mc[c].op = "updateTask"
          /\ mc[c].pageId = prevUpd.pageId
          /\ mc[c].status = prevUpd.status
          /\ mc[c].endedAt - prevUpd.at <= enterprise.idempotency.ttlMs )
        => mc[c].writes = 0

\* C6: a call of a public operation that was admitted by the breaker,
\* reached the API and ultimately failed has had CircuitBreaker.onFailure
\* run (failureCount++) exactly once on its behalf.
C6_OneFailurePerCall ==
    \A c \in MgrCalls :
        (config.enabled /\ Failed(mc[c]) /\ mc[c].remoteCalls > 0)
        => mc[c].failuresCounted = 1

\* C10 as stated: with CCN_WRITE_DISABLED set, updateTask ends with a
\* Validation error that is not retryable, and no request was sent.
C10_WriteSwitchFailsValidation ==
    \A c \in MgrCalls :
        (mc[c].op = "updateTask" /\ mc[c].wdAtStart /\ mc[c].pc = "done")
        => /\ mc[c].result = ValidationError
           /\ mc[c].remoteCalls = 0

\* C10, as the code has it: with CCN_WRITE_DISABLED set, updateTask returns
\* the dry-run placeholder at once and raises no error: no attempt is made,
\* no request is sent, nothing is written, and the breaker is not touched.
C10_WriteSwitchReturnsDryRun ==
    \A c \in MgrCalls :
        (mc[c].op = "updateTask" /\ mc[c].wdAtStart)
        => /\ mc[c].pc = "done"
           /\ mc[c].result = DryRunResult
           /\ mc[c].loop = NoLoop
           /\ mc[c].remoteCalls = 0
           /\ mc[c].writes = 0
           /\ mc[c].failuresCounted = 0
           /\ cb = pre

C10_Witness ==
    \E c \in MgrCalls :
        /\ mc[c].op = "updateTask"
        /\ mc[c].wdAtStart
        /\ ~enterprise.dryRun
        /\ mc[c].pc = "done"
        /\ mc[c].result = DryRunResult
        /\ ev.type = "call"

\* C11: a call of any operation made while CCN_NETWORK_DISABLED is set (an
\* updateTask that is a dry run aside) has ended at once with a Validation
\* error that is not retryable, has sent no request, and has left the
\* breaker as it was.
C11_NetworkSwitchFailsFast ==
    \A c \in MgrCalls :
        ( /\ mc[c].pc # "idle"
          /\ mc[c].ndAtStart
          /\ ~(mc[c].op = "updateTask" /\ mc[c].result = DryRunResult) )
        => /\ mc[c].pc = "done"
           /\ mc[c].result = ValidationError
           /\ mc[c].remoteCalls = 0
           /\ cb = pre

(***************************************************************************)
(* Claims about the timing of executeWithRetry, checked under SpecRetry.   *)
(***************************************************************************)
\* C12: an attempt whose operation has not settled when requestTimeoutMs
\* have passed fails with a Timeout error that is retryable, and the loop
\* treats it as any retryable failure (it sleeps the backoff delay while
\* attempts remain, and throws it after the last attempt); an attempt whose
\* operation settles before the deadline ends with the operation's own
\* result, or with the classification of the operation's own failure.
C12_TimeoutPerAttempt ==
    LET deadline == enterprise.timeout.requestTimeoutMs
        last == rx.attempt >= enterprise.retries.attempts
    IN  /\ hist.lastEnd = "timeout" =>
              /\ hist.lastElapsed = deadline
              /\ hist.lastFailure.kind = "CcnError"
              /\ hist.lastFailure.type = "Timeout"
              /\ hist.lastFailure.retryable
              /\ ~last => /\ rx.pc = "sleeping"
                          /\ \E j \in JitterOf(baseDelay(rx.attempt)) :
                                rx.delay = baseDelay(rx.attempt) + j
              /\ last => /\ rx.pc = "thrown"
                         /\ rx.outcome = hist.lastFailure
        /\ hist.lastEnd = "resolved" =>
              /\ hist.lastElapsed < deadline
              /\ rx.pc = "returned"
              /\ rx.outcome = Ok
        /\ hist.lastEnd = "rejected" =>
              /\ hist.lastElapsed < deadline
              /\ hist.lastFailure \in Failures
              /\ rx.pc \in {"thrown", "sleeping"}
              /\ rx.pc = "thrown" => rx.outcome = classify(hist.lastFailure)

C12_Witness ==
    /\ hist.lastEnd = "timeout"
    /\ rx.pc = "sleeping"
    /\ rx.attempt = 2
    /\ hist.invocations = 2

\* C13: a run of executeWithRetry (all its attempts and sleeps together)
\* that has ended, ended no later than globalTimeoutMs after its first
\* attempt started.
C13_GlobalDeadline ==
    (rx.pc \in {"returned", "thrown"} /\ hist.invocations >= 1) =>
        now - hist.starts[1] <= enterprise.timeout.globalTimeoutMs

\* The invocations of the operation made by this run that have not settled:
\* the one the loop awaits, and those a timeout has left behind.
InFlight == rx.orphans + (IF rx.pc = "awaiting" THEN 1 ELSE 0)

\* C14: at no time are two invocations of the operation made by one run of
\* executeWithRetry in flight.
C14_OneInvocationInFlight == InFlight <= 1

(***************************************************************************)
(* Concurrent failures at the breaker, checked under Spec.                 *)
(***************************************************************************)
\* C15: a failure that completes while the breaker is already OPEN leaves
\* nextRetryTime as the trip computed it.
C15_FailureWhileOpenKeepsRetryTime ==
    (config.enabled /\ ev.type = "failure" /\ pre.state = "OPEN") =>
        /\ cb.state = "OPEN"
        /\ cb.nextRetryTime = pre.nextRetryTime

(***************************************************************************)
(* Claims about the delays of executeWithRetry, checked under SpecRetry.   *)
(***************************************************************************)
\* The delays the backoff formula allows after attempt k.
Backoffs(k) == {baseDelay(k) + j : j \in JitterOf(baseDelay(k))}

\* C16: while the loop sleeps after a failure whose classification carries
\* a retry-after hint of N seconds, the delay is N * 1000 ms when
\* respectRetryAfter is true (whatever the backoff and maxDelayMs), and is
\* the backoff delay when respectRetryAfter is false.
C16_RetryAfterHonoured ==
    (rx.pc = "sleeping" /\ Classified(hist.lastFailure)
       /\ classify(hist.lastFailure).retryAfter # NoHeader) =>
        IF enterprise.retries.respectRetryAfter
        THEN rx.delay = classify(hist.lastFailure).retryAfter * 1000
        ELSE rx.delay \in Backoffs(rx.attempt)

C16_Witness ==
    /\ rx.pc = "sleeping"
    /\ enterprise.retries.respectRetryAfter
    /\ hist.lastFailure = Raw("rate_limited", 429, MaxRetryAfter)
    /\ rx.delay = MaxRetryAfter * 1000
    /\ rx.delay > enterprise.retries.maxDelayMs

\* min(minDelayMs * 2^(k-1), maxDelayMs), written out.
ExpectedDelay(k) ==
    LET exponential == enterprise.retries.minDelayMs * 2^(k - 1)
    IN  IF exponential <= enterprise.retries.maxDelayMs THEN exponential
        ELSE enterprise.retries.maxDelayMs

\* C17: with jitter off, the delay slept after failed attempt k, when no
\* retry-after hint replaces it, is min(minDelayMs * 2^(k-1), maxDelayMs)
\* and is at most maxDelayMs; the delays of a run that ignores hints are
\* non-decreasing from one attempt to the next.
C17_BackoffWithoutJitter ==
    ~enterprise.retries.jitter =>
        /\ ( /\ rx.pc = "sleeping"
             /\ Classified(hist.lastFailure)
             /\ \/ ~enterprise.retries.respectRetryAfter
                \/ classify(hist.lastFailure).retryAfter = NoHeader ) =>
              /\ rx.delay = ExpectedDelay(rx.attempt)
              /\ rx.delay <= enterprise.retries.maxDelayMs
        /\ ~enterprise.retries.respectRetryAfter =>
              /\ \A k \in 1..Len(hist.sleeps) :
                    hist.sleeps[k] = ExpectedDelay(k)
              /\ \A k \in 1..(Len(hist.sleeps) - 1) :
                    hist.sleeps[k] <= hist.sleeps[k + 1]

C17_Witness ==
    /\ ~enterprise.retries.jitter
    /\ ~enterprise.retries.respectRetryAfter
    /\ rx.pc = "sleeping"
    /\ Len(hist.sleeps) = 2
    /\ hist.sleeps[1] < hist.sleeps[2]
    /\ hist.sleeps[2] = enterprise.retries.maxDelayMs

(***************************************************************************)
(* The retry scenario: maxAttempts = 3, minDelayMs = 100,                  *)
(* maxDelayMs = 1000, no jitter.                                           *)
(***************************************************************************)
ScenarioRetries(respectRetryAfter) ==
    [attempts |-> 3, minDelayMs |-> 100, maxDelayMs |-> 1000,
     jitter |-> FALSE, respectRetryAfter |-> respectRetryAfter]

InitScenario ==
    /\ cb = NewBreaker
    /\ config = [enabled |-> TRUE, failureThreshold |-> MaxFailureThreshold,
                 successThreshold |-> MaxSuccessThreshold,
                 resetTimeoutMs |-> ResetTimeoutMs]
    /\ now = 0
    /\ inflight = [c \in Calls |-> "idle"]
    /\ pre = NewBreaker
    /\ ev = Event("init", "a", "none")
    /\ streak = 0
    /\ streakAt = 0
    /\ hoSucc = 0
    /\ stale = [c \in Calls |-> FALSE]
    /\ enterprise \in {[DefaultEnterprise EXCEPT !.retries = ScenarioRetries(r)] :
                         r \in BOOLEAN}
    /\ rx = IdleRun
    /\ hist = NoHistory
    /\ NoManager

SpecScenario == InitScenario /\ [][NextRetry]_vars

\* The attempts made so far began at the first Len(hist.starts) of `times`.
StartedAt(times) ==
    /\ Len(hist.starts) <= Len(times)
    /\ \A k \in 1..Len(hist.starts) : hist.starts[k] = times[k]

\* C18 as stated: in the scenario, with an operation that fails at once
\* with a Network error on every attempt, the attempts start at t = 0,
\* t = 100 and t = 200, and the run ends with a retryable Network error.
C18_AttemptsAt_0_100_200 ==
    hist.atOnceNetwork =>
        /\ StartedAt(<<0, 100, 200>>)
        /\ rx.pc = "thrown" => /\ hist.invocations = 3
                               /\ rx.outcome.type = "Network"
                               /\ rx.outcome.retryable

\* C18 with the delays the backoff formula gives (100 ms, then 200 ms): the
\* attempts start at t = 0, t = 100 and t = 300, the run never returns a
\* result, and it ends after the third attempt with a retryable Network
\* error.
C18_AttemptsAt_0_100_300 ==
    hist.atOnceNetwork =>
        /\ StartedAt(<<0, 100, 300>>)
        /\ rx.pc # "returned"
        /\ rx.pc = "thrown" => /\ hist.invocations = 3
                               /\ rx.outcome.type = "Network"
                               /\ rx.outcome.retryable

C18_Witness ==
    /\ hist.atOnceNetwork
    /\ rx.pc = "thrown"
    /\ hist.starts = <<0, 100, 300>>
    /\ hist.sleeps = <<100, 200>>
    /\ rx.outcome.type = "Network"

(***************************************************************************)
(* The idempotency cache on its own: recordIdempotency and                 *)
(* checkIdempotency called with the key the record was stored under.       *)
(***************************************************************************)
Pages == {PageA.text, "7c1e0b52-93aa-4c1d-b7f5-0d2a6e4f9b13"}

InitCache ==
    /\ cb = NewBreaker
    /\ config = [enabled |-> TRUE, failureThreshold |-> MaxFailureThreshold,
                 successThreshold |-> MaxSuccessThreshold,
                 resetTimeoutMs |-> ResetTimeoutMs]
    /\ now = 0
    /\ inflight = [c \in Calls |-> "idle"]
    /\ pre = NewBreaker
    /\ ev = Event("init", "a", "none")
    /\ streak = 0
    /\ streakAt = 0
    /\ hoSucc = 0
    /\ stale = [c \in Calls |-> FALSE]
    /\ enterprise \in {[DefaultEnterprise EXCEPT !.idempotency.enabled = i] :
                         i \in BOOLEAN}
    /\ rx = IdleRun
    /\ hist = NoHistory
    /\ env = [writeDisabled |-> FALSE, networkDisabled |-> FALSE]
    /\ cache = {}
    /\ mc = [c \in MgrCalls |-> IdleCall]
    /\ opsLeft = 0
    /\ prevUpd = NoPrevUpd
    /\ cx = NoLookups
    /\ NoSide

cacheFrame == <<cb, config, inflight, pre, ev, streak, streakAt, hoSucc, stale,
                enterprise, rx, hist, env, mc, opsLeft, prevUpd,
                tr, cl, batch, ut>>

\* recordIdempotency(pageId, 'updateStatus', { status })
Record(pageId, status) ==
    /\ cache' = recordIdempotency(cache, pageId, "updateStatus", status, now)
    /\ cx' = [cx EXCEPT
                !.recorded = {r \in @ : r.pageId # pageId \/ r.status # status}
                             \cup {[pageId |-> pageId, status |-> status,
                                    at |-> now]},
                !.looked = FALSE]
    /\ UNCHANGED <<now, cacheFrame>>

\* checkIdempotency(key), with the key of a record of (pageId, status).
Lookup(pageId, status) ==
    LET key == recordKey(pageId, "updateStatus", stringify(status))
        chk == checkIdempotency(cache, key, now)
    IN  /\ cache' = chk.cache
        /\ cx' = [cx EXCEPT !.looked = TRUE, !.pageId = pageId,
                            !.status = status, !.hit = chk.hit]
        /\ UNCHANGED <<now, cacheFrame>>

\* Time passes.
CacheTick ==
    /\ now < MaxTime
    /\ now' = now + 1
    /\ cx' = [cx EXCEPT !.looked = FALSE]
    /\ UNCHANGED <<cache, cacheFrame>>

NextCache ==
    \/ \E pageId \in Pages, status \in Statuses : Record(pageId, status)
    \/ \E pageId \in Pages, status \in Statuses : Lookup(pageId, status)
    \/ CacheTick

SpecCache == InitCache /\ [][NextCache]_vars

\* The records made for the fingerprint the last step looked up.
RecordsLooked ==
    {r \in cx.recorded : r.pageId = cx.pageId /\ r.status = cx.status}

\* The cache entries under the key the last step looked up.
EntriesLooked ==
    {e \in cache :
       e.key = recordKey(cx.pageId, "updateStatus", stringify(cx.status))}

C20_OneWritePerCall ==
    \A c \in MgrCalls :
        (enterprise.idempotency.enabled /\ mc[c].op = "updateTask")
        => mc[c].writes <= 1

(***************************************************************************)
(* Correlation ids.  The manager makes one id when it is constructed and   *)
(* attaches it to every log event and every error; executeWithResilience   *)
(* makes a second id per call, the operationId, which goes into the log    *)
(* metadata of the attempts only.                                          *)
(***************************************************************************)

MaxCalls == 3
MaxTraceTime == 2
MaxRandom == 1

\* crypto.randomBytes(4)
Randoms == 0..MaxRandom

\* An error that carries no correlation id.
NoId == CorrelationId(NoTime, NoTime)

generateCorrelationId(t, r) == CorrelationId(t, r)

\* What one attempt logs: the manager's id, and the call's operationId in the
\* metadata.
AttemptLog(operationId) == [correlationId |-> tr.id, operationId |-> operationId]

InitTrace ==
    /\ cb = NewBreaker
    /\ config = [enabled |-> TRUE, failureThreshold |-> MaxFailureThreshold,
                 successThreshold |-> MaxSuccessThreshold,
                 resetTimeoutMs |-> ResetTimeoutMs]
    /\ now = 0
    /\ inflight = [c \in Calls |-> "idle"]
    /\ pre = NewBreaker
    /\ ev = Event("init", "a", "none")
    /\ streak = 0
    /\ streakAt = 0
    /\ hoSucc = 0
    /\ stale = [c \in Calls |-> FALSE]
    /\ enterprise \in {Enterprise(a, FALSE, TRUE) : a \in 1..MaxMgrAttempts}
    /\ rx = IdleRun
    /\ hist = NoHistory
    /\ env \in [writeDisabled : {FALSE}, networkDisabled : BOOLEAN]
    /\ cache = {}
    /\ mc = [c \in MgrCalls |-> IdleCall]
    /\ opsLeft = 0
    /\ prevUpd = NoPrevUpd
    /\ cx = NoLookups
    /\ tr \in {[id |-> generateCorrelationId(0, r), calls |-> <<>>] :
                 r \in Randoms}
    /\ cl = NoClassify
    /\ batch = NoBatch
    /\ ut = NoUpdates

traceFrame == <<config, inflight, pre, ev, streak, streakAt, hoSucc, stale,
                enterprise, rx, hist, env, cache, mc, opsLeft, prevUpd, cx,
                cl, batch, ut>>

LastCall == tr.calls[Len(tr.calls)]

setLast(call) == [tr EXCEPT !.calls[Len(tr.calls)] = call]

\* A call of executeWithResilience: the operationId is made, the kill switch
\* and the breaker are asked, and the first attempt starts.
TraceCall ==
    /\ Len(tr.calls) < MaxCalls
    /\ tr.calls # <<>> => LastCall.pc \in {"returned", "thrown"}
    /\ \E r \in Randoms :
          LET operationId == generateCorrelationId(now, r)
              gate == executeGate(cb, now)
              call == [operationId |-> operationId, pc |-> "awaiting",
                       attempt |-> 1, logged |-> {AttemptLog(operationId)},
                       errorId |-> NoId]
              thrown == [call EXCEPT !.pc = "thrown", !.attempt = 0,
                                     !.logged = {}, !.errorId = tr.id]
          IN  IF env.networkDisabled
              THEN /\ tr' = [tr EXCEPT !.calls = Append(@, thrown)]
                   /\ cb' = cb
              ELSE IF gate.open
              THEN /\ tr' = [tr EXCEPT !.calls = Append(@, thrown)]
                   /\ cb' = gate.cb
              ELSE /\ tr' = [tr EXCEPT !.calls = Append(@, call)]
                   /\ cb' = gate.cb
    /\ UNCHANGED <<now, traceFrame>>

TraceResolves ==
    /\ tr.calls # <<>>
    /\ LastCall.pc = "awaiting"
    /\ tr' = setLast([LastCall EXCEPT !.pc = "returned"])
    /\ cb' = onSuccess(cb)
    /\ UNCHANGED <<now, traceFrame>>

\* The attempt fails: the catch block classifies the failure with the
\* manager's id, and throws or sleeps.
TraceRejects ==
    /\ tr.calls # <<>>
    /\ LastCall.pc = "awaiting"
    /\ \E error \in RemoteFailures :
          LET c == catchBlock(LastCall.attempt, error, 0)
          IN  IF c.throw
              THEN /\ tr' = setLast([LastCall EXCEPT
                                       !.pc = "thrown",
                                       !.errorId =
                                          IF c.error.kind = "CcnError"
                                          THEN tr.id ELSE NoId])
                   /\ cb' = onFailure(cb, now)
              ELSE /\ tr' = setLast([LastCall EXCEPT !.pc = "sleeping"])
                   /\ cb' = cb
    /\ UNCHANGED <<now, traceFrame>>

\* The sleep ends and the next attempt starts.
TraceSleepEnds ==
    /\ tr.calls # <<>>
    /\ LastCall.pc = "sleeping"
    /\ tr' = setLast([LastCall EXCEPT
                        !.pc = "awaiting",
                        !.attempt = @ + 1,
                        !.logged = @ \cup {AttemptLog(LastCall.operationId)}])
    /\ UNCHANGED <<cb, now, traceFrame>>

TraceTick ==
    /\ now < MaxTraceTime
    /\ now' = now + 1
    /\ UNCHANGED <<cb, tr, traceFrame>>

NextTrace ==
    \/ TraceCall
    \/ TraceResolves
    \/ TraceRejects
    \/ TraceSleepEnds
    \/ TraceTick

SpecTrace == InitTrace /\ [][NextTrace]_vars

\* C21: the errors surfaced by two distinct top-level calls carry two
\* different correlation ids, and all the attempts of one call carry one id.
C21_DistinctCallsDistinctIds ==
    /\ \A i, k \in 1..Len(tr.calls) :
          (/\ i # k
           /\ tr.calls[i].pc = "thrown"
           /\ tr.calls[k].pc = "thrown")
          => tr.calls[i].errorId # tr.calls[k].errorId
    /\ \A i \in 1..Len(tr.calls) : Cardinality(tr.calls[i].logged) <= 1

\* C22: for every value of attempts and every failure of the operation,
\* what the run raises to the caller is a classified error (a CcnError).
C22_SurfacedErrorClassified ==
    rx.pc = "thrown" => rx.outcome.kind = "CcnError"

(***************************************************************************)
(* CcnError.fromNotionError on its own: one call, with a failure of any    *)
(* shape as its argument.                                                  *)
(***************************************************************************)

\* error.code: absent, a code of the API, a code of the network layer, or a
\* number.
ErrorCodes ==
    {NoCode, "unauthorized", "rate_limited", "object_not_found",
     "validation_error", "ETIMEDOUT", "ESOCKETTIMEDOUT", "ECONNRESET",
     "ENOTFOUND", NumericCode}

\* error.status: absent, or an HTTP status.
StatusCodes == {NoStatus, 400, 401, 403, 404, 409, 429, 500, 502, 503}

\* error.headers['retry-after']: absent, or a number of seconds.
RetryAfters == {NoHeader} \cup (0..MaxRetryAfter)

ClassifierInputs ==
    {Raw(code, status, retryAfter) :
       code \in ErrorCodes, status \in StatusCodes, retryAfter \in RetryAfters}
    \cup {ThrownNull, ThrownUndefined, TypeError}

InitClassify ==
    /\ cb = NewBreaker
    /\ config = [enabled |-> TRUE, failureThreshold |-> MaxFailureThreshold,
                 successThreshold |-> MaxSuccessThreshold,
                 resetTimeoutMs |-> ResetTimeoutMs]
    /\ now = 0
    /\ inflight = [c \in Calls |-> "idle"]
    /\ pre = NewBreaker
    /\ ev = Event("init", "a", "none")
    /\ streak = 0
    /\ streakAt = 0
    /\ hoSucc = 0
    /\ stale = [c \in Calls |-> FALSE]
    /\ enterprise = DefaultEnterprise
    /\ rx = IdleRun
    /\ hist = NoHistory
    /\ env = [writeDisabled |-> FALSE, networkDisabled |-> FALSE]
    /\ cache = {}
    /\ mc = [c \in MgrCalls |-> IdleCall]
    /\ opsLeft = 0
    /\ prevUpd = NoPrevUpd
    /\ cx = NoLookups
    /\ tr = NoTrace
    /\ cl \in {[NoClassify EXCEPT !.pc = "called", !.error = error] :
                 error \in ClassifierInputs}
    /\ batch = NoBatch
    /\ ut = NoUpdates

\* The call runs: it returns a CcnError, or it throws.
Classify ==
    /\ cl.pc = "called"
    /\ LET result == fromNotionError(cl.error)
       IN  cl' = [cl EXCEPT
                    !.pc = IF result.kind = "CcnError" THEN "returned"
                           ELSE "threw",
                    !.result = result]
    /\ UNCHANGED <<cb, config, now, inflight, pre, ev, streak, streakAt,
                   hoSucc, stale, enterprise, rx, hist, env, cache, mc, opsLeft,
                   prevUpd, cx, tr, batch, ut>>

NextClassify == Classify

SpecClassify == InitClassify /\ [][NextClassify]_vars

\* C23: the classifier returns a classified error for every failure value,
\* whatever its shape, and never throws.
C23_ClassifierNeverThrows ==
    cl.pc # "called" => (cl.pc = "returned" /\ cl.result.kind = "CcnError")

\* The rules of the classification in their order of priority, and whether
\* the kind each gives is retryable.
Rules == <<"Auth", "RateLimit", "NotFound", "Timeout", "Network", "Unknown">>

Matches(rule, e) ==
    CASE rule = "Auth" -> e.code = "unauthorized" \/ e.status = 401
      [] rule = "RateLimit" -> e.code = "rate_limited" \/ e.status = 429
      [] rule = "NotFound" -> e.code = "object_not_found" \/ e.status = 404
      [] rule = "Timeout" -> e.code \in {"ETIMEDOUT", "ESOCKETTIMEDOUT"}
      [] rule = "Network" -> startsWith(e.code, "E") \/ e.status >= 500
      [] rule = "Unknown" -> TRUE

FirstMatch(e) ==
    Rules[CHOOSE i \in 1..Len(Rules) :
            /\ Matches(Rules[i], e)
            /\ \A k \in 1..(i - 1) : ~Matches(Rules[k], e)]

RetryableKinds == {"RateLimit", "Timeout", "Network"}

\* C24: for every failure the result is the first rule that matches, in the
\* order Auth, RateLimit, NotFound, Timeout, Network, Unknown; so every 4xx
\* status other than 429 is not retryable and every status >= 500 is
\* retryable.
C24_FirstMatchingRule ==
    (cl.pc # "called" /\ cl.error.kind = "raw") =>
       /\ cl.result.kind = "CcnError"
       /\ cl.result.type = FirstMatch(cl.error)
       /\ cl.result.retryable = (cl.result.type \in RetryableKinds)
       /\ (cl.error.status \in (400..499) \ {429}) => ~cl.result.retryable
       /\ cl.error.status >= 500 => cl.result.retryable

\* C25: when a failed attempt with status 429 or status >= 500 carries a
\* retry-after value of N seconds and respectRetryAfter is true, the next
\* attempt is delayed by N*1000 ms.
C25_RetryAfterFor429And5xx ==
    (/\ rx.pc = "sleeping"
     /\ hist.lastEnd = "rejected"
     /\ hist.lastFailure.kind = "raw"
     /\ hist.lastFailure.status = 429 \/ hist.lastFailure.status >= 500
     /\ hist.lastFailure.retryAfter # NoHeader
     /\ enterprise.retries.respectRetryAfter)
    => rx.delay = hist.lastFailure.retryAfter * 1000

\* C26: a call of updateTask made in dry-run mode (the dryRun option set, or
\* CCN_WRITE_DISABLED set) ends at once with the placeholder result, with no
\* attempt, no request sent and no write, and leaves the breaker and the
\* idempotency cache as they were.
C26_DryRunWritesNothing ==
    [][\A c \in MgrCalls :
          (/\ opsLeft' = opsLeft - 1
           /\ mc'[c].op = "updateTask"
           /\ enterprise.dryRun \/ env.writeDisabled)
          => /\ mc'[c].pc = "done"
             /\ mc'[c].result = DryRunResult
             /\ mc'[c].loop = NoLoop
             /\ mc'[c].body = NoBody
             /\ mc'[c].remoteCalls = 0
             /\ mc'[c].writes = 0
             /\ mc'[c].sleeps = 0
             /\ mc'[c].failuresCounted = 0
             /\ cb' = cb
             /\ cache' = cache]_vars

C26_Witness ==
    \E c \in MgrCalls :
        /\ mc[c].op = "updateTask"
        /\ enterprise.dryRun
        /\ mc[c].pc = "done"
        /\ mc[c].result = DryRunResult
        /\ ev.type = "call"
        /\ cb.failureCount > 0

\* C27: with the breaker disabled by configuration, after any sequence of
\* calls, successes and failures the breaker is still CLOSED with
\* failureCount = 0, successCount = 0 and no lastFailureTime or
\* nextRetryTime, every call has been admitted and every outcome is the
\* operation's own; no call is rejected with CircuitOpen.
C27_DisabledBreakerStaysClosed ==
    ~config.enabled =>
       /\ cb.state = "CLOSED"
       /\ cb.failureCount = 0
       /\ cb.successCount = 0
       /\ cb.lastFailureTime = NoTime
       /\ cb.nextRetryTime = NoTime
       /\ ev.type # "reject"
       /\ ev.result \in {"none", "ok", "OpError"}

C27_Witness ==
    /\ ~config.enabled
    /\ ev.type = "failure"
    /\ ev.c = "b"
    /\ inflight["a"] = "running"
    /\ now >= 1

\* C28: whatever the breaker's state was, reset() has left it CLOSED with
\* failureCount = 0, successCount = 0 and lastFailureTime and nextRetryTime
\* cleared, and an execute call made now is admitted.
C28_ResetCloses ==
    ev.type = "reset" =>
       /\ cb.state = "CLOSED"
       /\ cb.failureCount = 0
       /\ cb.successCount = 0
       /\ cb.lastFailureTime = NoTime
       /\ cb.nextRetryTime = NoTime
       /\ ~executeGate(cb, now).open
       /\ executeGate(cb, now).cb.state = "CLOSED"

C28_Witness ==
    /\ ev.type = "reset"
    /\ pre.state = "OPEN"
    /\ executeGate(pre, now).open
    /\ cb.state = "CLOSED"

(***************************************************************************)
(* Recovery.  The breaker with callers that keep calling, a clock that     *)
(* keeps running and a remote service that fails for a while and then      *)
(* answers every call; reset() is never called.                            *)
(***************************************************************************)

\* The last time at which an operation still fails: a breaker tripped then
\* has its retry time within the time the model covers.
LastFailureAt == MaxTime - ResetTimeoutMs

\* The awaited operation rejects, while the service is still failing.
OpFailsEarly(c) ==
    /\ now <= LastFailureAt
    /\ OpFails(c)

NextLive ==
    \/ \E c \in Calls : Execute(c)
    \/ \E c \in Calls : OpSucceeds(c)
    \/ \E c \in Calls : OpFailsEarly(c)
    \/ Tick

\* Time keeps advancing, every caller keeps calling, and every operation
\* settles.
Fairness ==
    /\ WF_vars(Tick)
    /\ \A c \in Calls : WF_vars(Execute(c))
    /\ \A c \in Calls : WF_vars(OpSucceeds(c))

SpecLive == Init /\ [][NextLive]_vars /\ Fairness

\* C29: no state is terminal: whenever the breaker is not CLOSED, it is
\* CLOSED again later, without reset() being called, provided time keeps
\* advancing, calls keep arriving and from some point on every admitted
\* operation succeeds.
C29_AutoRecovers == (cb.state # "CLOSED") ~> (cb.state = "CLOSED")

C29_Witness ==
    /\ config.enabled
    /\ cb.state = "CLOSED"
    /\ pre.state = "HALF_OPEN"
    /\ ev.type = "success"
    /\ now > LastFailureAt

(***************************************************************************)
(* NotionRoadmapManager.batchUpdate.  The updateTask calls of one batch    *)
(* run together and settle in any order, each with a result or with an     *)
(* error; the loop awaits them all before it takes the next batch.         *)
(***************************************************************************)

MaxBatch == 4
MaxConcurrency == 3

\* `options?.concurrency || 3`
DefaultConcurrency == 3

BatchIdentifiers == {PageA.text, NameA.text}

\* The lists of updates, by their task identifiers.
UpdateLists ==
    UNION {[1..n -> BatchIdentifiers] : n \in 0..MaxBatch}

\* What updateTask throws: a CcnError, or a value that is not one.
UpdateFailures == {NotFoundError, ThrownNull}

\* `error instanceof CcnError ? error.message : String(error)`
errorMessage(error) ==
    IF error.kind = "CcnError" THEN error.type ELSE error.kind

\* updates.slice(i, i + concurrency), as positions of the list (from 1).
slice(updates, i, concurrency) ==
    {k \in 1..Len(updates) : i < k /\ k <= i + concurrency}

\* Mutant: Promise.all, which rejects as soon as one promise rejects.
all_firstRejection(b) ==
    [done |-> b.pending = {} \/ b.rejected # {}, rejects |-> b.rejected # {}]

\* Promise.allSettled(promises): over when every promise has settled, and
\* never rejects.
allSettled(b) == [done |-> b.pending = {}, rejects |-> FALSE]

\* The head of the for loop at index i: the next batch is mapped to its
\* callbacks, each of which calls updateTask, or the loop is over and
\* { succeeded, failed } is returned.
loopHead(b, i) ==
    IF i < Len(b.updates)
    THEN [b EXCEPT !.pc = "awaiting", !.i = i,
                   !.pending = slice(b.updates, i, b.concurrency),
                   !.rejected = {}]
    ELSE [b EXCEPT !.pc = "resolved", !.i = i, !.pending = {}]

InitBatch ==
    /\ cb = NewBreaker
    /\ config = [enabled |-> TRUE, failureThreshold |-> MaxFailureThreshold,
                 successThreshold |-> MaxSuccessThreshold,
                 resetTimeoutMs |-> ResetTimeoutMs]
    /\ now = 0
    /\ inflight = [c \in Calls |-> "idle"]
    /\ pre = NewBreaker
    /\ ev = Event("init", "a", "none")
    /\ streak = 0
    /\ streakAt = 0
    /\ hoSucc = 0
    /\ stale = [c \in Calls |-> FALSE]
    /\ enterprise = DefaultEnterprise
    /\ rx = IdleRun
    /\ hist = NoHistory
    /\ env = [writeDisabled |-> FALSE, networkDisabled |-> FALSE]
    /\ cache = {}
    /\ mc = [c \in MgrCalls |-> IdleCall]
    /\ opsLeft = 0
    /\ prevUpd = NoPrevUpd
    /\ cx = NoLookups
    /\ tr = NoTrace
    /\ cl = NoClassify
    /\ batch \in {[NoBatch EXCEPT !.updates = updates,
                                  !.options = [concurrency |-> n,
                                               continueOnError |-> k]] :
                    updates \in UpdateLists, n \in 0..MaxConcurrency,
                    k \in BOOLEAN}
    /\ ut = NoUpdates

batchFrame == <<cb, config, now, inflight, pre, ev, streak, streakAt, hoSucc, stale,
                enterprise, rx, hist, env, cache, mc, opsLeft, prevUpd, cx,
                tr, cl, ut>>

\* batchUpdate(updates, options) is called and runs to its first await.
BatchCall ==
    /\ batch.pc = "idle"
    /\ LET concurrency == IF batch.options.concurrency # 0
                          THEN batch.options.concurrency
                          ELSE DefaultConcurrency
       IN  batch' = loopHead([batch EXCEPT !.concurrency = concurrency], 0)
    /\ UNCHANGED batchFrame

\* The updateTask call of the update at position k resolves: the callback
\* pushes the result.
UpdateResolves(k) ==
    /\ batch.pc = "awaiting"
    /\ k \in batch.pending
    /\ batch' = [batch EXCEPT
                   !.pending = @ \ {k},
                   !.succeeded = Append(@, [update |-> k])]
    /\ UNCHANGED batchFrame

\* The updateTask call of the update at position k rejects: the callback
\* pushes the failure, and rethrows unless continueOnError is set.
UpdateRejects(k) ==
    /\ batch.pc = "awaiting"
    /\ k \in batch.pending
    /\ \E error \in UpdateFailures :
          batch' = [batch EXCEPT
                      !.pending = @ \ {k},
                      !.failed = Append(@, [update |-> k,
                                            error |-> errorMessage(error)]),
                      !.rejected = IF batch.options.continueOnError
                                   THEN @ ELSE @ \cup {k}]
    /\ UNCHANGED batchFrame

\* The await of the batch is over: i += concurrency, and the loop goes on.
BatchSettled ==
    /\ batch.pc = "awaiting"
    /\ allSettled(batch).done
    /\ batch' = IF allSettled(batch).rejects
                THEN [batch EXCEPT !.pc = "rejected"]
                ELSE loopHead(batch, batch.i + batch.concurrency)
    /\ UNCHANGED batchFrame

NextBatch ==
    \/ BatchCall
    \/ \E k \in 1..MaxBatch : UpdateResolves(k)
    \/ \E k \in 1..MaxBatch : UpdateRejects(k)
    \/ BatchSettled

SpecBatch == InitBatch /\ [][NextBatch]_vars

\* How many entries of the sequence `entries` are for the update at k.
Accounted(entries, k) ==
    Cardinality({n \in 1..Len(entries) : entries[n].update = k})

\* C30: for every list of updates and every pattern of successes and
\* failures of the updateTask calls, batchUpdate does not reject and is never
\* stuck, and when it has resolved every update is in succeeded or in failed
\* exactly once, so that |succeeded| + |failed| = |updates|.
C30_BatchAccounting ==
    /\ batch.pc # "rejected"
    /\ batch.pc = "awaiting" => (batch.pending # {} \/ allSettled(batch).done)
    /\ batch.pc = "resolved" =>
          /\ Len(batch.succeeded) + Len(batch.failed) = Len(batch.updates)
          /\ \A k \in 1..Len(batch.updates) :
                Accounted(batch.succeeded, k) + Accounted(batch.failed, k) = 1

C30_Witness ==
    /\ batch.pc = "resolved"
    /\ ~batch.options.continueOnError
    /\ Len(batch.updates) > batch.concurrency
    /\ \E n \in 1..Len(batch.failed) :
          batch.failed[n].update <= batch.concurrency
    /\ \E n \in 1..Len(batch.succeeded) :
          batch.succeeded[n].update > batch.concurrency

\* C31: a success leaves failureCount = 0 in whatever state the breaker is,
\* a CLOSED breaker's failureCount is the number of failures since the last
\* success or reset, and a failure opens a CLOSED breaker only when that
\* number has reached failureThreshold.
C31_OnlyConsecutiveFailuresTrip ==
    config.enabled =>
       /\ ev.type = "success" => cb.failureCount = 0
       /\ cb.state = "CLOSED" => cb.failureCount = streak
       /\ (pre.state = "CLOSED" /\ cb.state = "OPEN") =>
              streak >= config.failureThreshold

\* A success clears the failures counted so far, and the breaker stays
\* CLOSED.
C31_Witness ==
    /\ config.enabled
    /\ ev.type = "success"
    /\ pre.state = "CLOSED"
    /\ pre.failureCount > 0
    /\ cb.state = "CLOSED"
    /\ cb.failureCount = 0

\* The error execute throws when the breaker is OPEN: its type, its
\* retryable flag and its metadata.
circuitOpen(b) ==
    [type |-> "CircuitOpen", retryable |-> TRUE,
     metadata |-> [state |-> b.state, failureCount |-> b.failureCount,
                   nextRetryTime |-> b.nextRetryTime]]

\* C32: a call rejected because the breaker is OPEN gets a CircuitOpen error
\* with retryable = true that carries the breaker's nextRetryTime; the
\* rejection leaves state, failureCount, successCount, lastFailureTime and
\* nextRetryTime as they were, and the operation is not invoked.
C32_RejectionChangesNothing ==
    (config.enabled /\ ev.type = "reject") =>
       /\ ev.result = circuitOpen(pre).type
       /\ circuitOpen(pre).retryable
       /\ circuitOpen(pre).metadata.state = "OPEN"
       /\ circuitOpen(pre).metadata.nextRetryTime = cb.nextRetryTime
       /\ cb.nextRetryTime # NoTime
       /\ now < cb.nextRetryTime
       /\ cb = pre
       /\ inflight[ev.c] = "idle"

\* A rejection while the other caller's operation is still running.
C32_Witness ==
    /\ config.enabled
    /\ ev.type = "reject"
    /\ cb.state = "OPEN"
    /\ cb.failureCount = MaxFailureThreshold
    /\ \E c \in Calls : inflight[c] = "running"

\* C33: a CircuitOpen rejection is never retried: no call of a public
\* operation has gone to a backoff sleep, and on to a further attempt, on a
\* CircuitOpen error.
C33_CircuitOpenNeverRetried ==
    \A c \in MgrCalls : ~mc[c].retriedOpen

\* C34: a call that fails with a caller error that is not retryable
\* (NotFound, Validation, Auth), with no retryable failure before it, does
\* not count toward failureThreshold and does not open the circuit.
C34_OnlyRetryableFailuresCount ==
    \A c \in MgrCalls :
        (/\ mc[c].pc = "done"
         /\ mc[c].result.kind = "CcnError"
         /\ mc[c].result.type \in {"NotFound", "Validation", "Auth"}
         /\ ~mc[c].result.retryable
         /\ mc[c].sleeps = 0)
        => /\ mc[c].failuresCounted = 0
           /\ cb.failureCount = 0
           /\ cb.state = "CLOSED"

(***************************************************************************)
(* Termination of a run of executeWithRetry.  The timers of the run fire:  *)
(* the timeout of an attempt, and the end of a sleep.                      *)
(***************************************************************************)
TimersFire ==
    /\ WF_vars(TimerFires)
    /\ WF_vars(SleepEnds)

SpecRetryLive == InitRetry /\ [][NextRetry]_vars /\ TimersFire

\* The counts of a run: no more invocations than maxAttempts, one sleep
\* before every attempt but the first, and none after the last attempt or
\* after a success.
RunCounts ==
    enterprise.retries.attempts >= 1 =>
       /\ hist.invocations <= enterprise.retries.attempts
       /\ hist.invocations = rx.attempt
       /\ rx.pc \in {"awaiting", "returned", "thrown"} =>
              Len(hist.sleeps) = hist.invocations - 1
       /\ rx.pc = "sleeping" =>
              /\ Len(hist.sleeps) = hist.invocations
              /\ hist.invocations < enterprise.retries.attempts
       /\ enterprise.retries.attempts = 1 =>
              (hist.invocations <= 1 /\ hist.sleeps = <<>>)

\* C35: every run of executeWithRetry ends, returning or throwing, given
\* that each attempt settles or times out; it makes at most maxAttempts
\* invocations and one sleep fewer than the attempts made, none after the
\* final attempt or after a success, and with maxAttempts = 1 a single
\* attempt and no sleep.
C35_RunTerminates ==
    /\ []RunCounts
    /\ (rx.pc \in {"awaiting", "sleeping"}) ~> (rx.pc \in {"returned", "thrown"})

\* A run whose last allowed attempt timed out.
C35_Witness ==
    /\ enterprise.retries.attempts = MaxAttempts
    /\ rx.pc = "thrown"
    /\ hist.invocations = MaxAttempts
    /\ Len(hist.sleeps) = MaxAttempts - 1
    /\ hist.lastEnd = "timeout"

\* C36: the HALF_OPEN trial is a single probe: a call that arrives at a
\* HALF_OPEN breaker while another call's operation is in flight is not
\* admitted.
C36_SingleProbe ==
    (config.enabled /\ ev.type = "admit" /\ pre.state = "HALF_OPEN") =>
        \A c \in Calls \ {ev.c} : inflight[c] # "running"

\* C37: the success of a call admitted before the breaker last entered
\* HALF_OPEN (while CLOSED, or in an earlier trial) does not increment
\* successCount and does not close a HALF_OPEN breaker.
C37_OnlyTrialCallsClose ==
    (/\ config.enabled
     /\ ev.type = "success"
     /\ pre.state = "HALF_OPEN"
     /\ stale[ev.c])
    => /\ cb.state = "HALF_OPEN"
       /\ cb.successCount = pre.successCount

(***************************************************************************)
(* Concurrent updateTask calls, as the callbacks of one batchUpdate batch  *)
(* run them.  Each call is the operation updateTask hands to               *)
(* executeWithResilience, cut at its awaits: the idempotency check and the *)
(* call of pages.retrieve, then the archived test and the call of          *)
(* pages.update, then recordIdempotency.  The breaker is disabled and one  *)
(* attempt is allowed, so a failed request ends its call; the request      *)
(* timer rejects the caller's promise and leaves the operation running.    *)
(***************************************************************************)
MaxUpdates == 3

MaxUpdTime == 3

InitRace ==
    /\ cb = NewBreaker
    /\ config = [enabled |-> FALSE, failureThreshold |-> MaxFailureThreshold,
                 successThreshold |-> MaxSuccessThreshold,
                 resetTimeoutMs |-> ResetTimeoutMs]
    /\ now = 0
    /\ inflight = [c \in Calls |-> "idle"]
    /\ pre = NewBreaker
    /\ ev = Event("init", "a", "none")
    /\ streak = 0
    /\ streakAt = 0
    /\ hoSucc = 0
    /\ stale = [c \in Calls |-> FALSE]
    /\ enterprise \in
          {[Enterprise(1, FALSE, TRUE) EXCEPT !.idempotency.enabled = i] :
             i \in BOOLEAN}
    /\ rx = IdleRun
    /\ hist = NoHistory
    /\ env = [writeDisabled |-> FALSE, networkDisabled |-> FALSE]
    /\ cache = {}
    /\ mc = [c \in MgrCalls |-> IdleCall]
    /\ opsLeft = 0
    /\ prevUpd = NoPrevUpd
    /\ cx = NoLookups
    /\ tr = NoTrace
    /\ cl = NoClassify
    /\ batch = NoBatch
    /\ ut = NoUpdates

raceFrame == <<cb, config, inflight, pre, ev, streak, streakAt, hoSucc, stale,
               enterprise, rx, hist, env, mc, opsLeft, prevUpd, cx,
               tr, cl, batch>>

\* The calls whose operation is at an await.
InRequest == {c \in Calls : ut.calls[c].pc \in {"retrieving", "updating"}}

\* The caller's promise settles once: a result that arrives after the
\* request timer has rejected it is dropped.
settle(call, result) ==
    IF call.settled = "pending" THEN result ELSE call.settled

\* updateTask(pageId, status) is called and runs to its first await: the
\* identifier is a page id, the cache is checked with the key
\* `${pageId}-updateStatus-${status}`, and a page is requested (by
\* getTaskById on a hit, by the preflight check otherwise).
RaceCall(c, pageId, status) ==
    LET chk == checkIdempotency(cache, idempotencyKey(pageId, status), now)
        id  == ut.started + 1
        others == {ut.calls[d].id : d \in InRequest \ {c}}
    IN  /\ ~isDryRun
        /\ ut.calls[c].pc \in {"idle", "done", "failed"}
        /\ ut.started < MaxUpdates
        /\ cache' = chk.cache
        /\ ut' = [ut EXCEPT
                    !.started = id,
                    !.calls = [d \in Calls |->
                        IF d = c
                        THEN [pc |-> "retrieving", settled |-> "pending",
                              pageId |-> pageId, status |-> status,
                              skip |-> chk.hit, startedAt |-> now,
                              id |-> id, with |-> others]
                        ELSE IF d \in InRequest
                        THEN [ut.calls[d] EXCEPT !.with = @ \cup {id}]
                        ELSE ut.calls[d]]]
        /\ UNCHANGED <<now, raceFrame>>

\* pages.retrieve resolves: a skipped call returns the page; otherwise an
\* archived page is a Validation error, and any other page is updated.
PageRetrieved(c, archived) ==
    LET call == ut.calls[c]
    IN  /\ call.pc = "retrieving"
        /\ ut' = [ut EXCEPT !.calls[c] =
                    IF call.skip
                    THEN [call EXCEPT !.pc = "done",
                                      !.settled = settle(call, "returned")]
                    ELSE IF archived
                    THEN [call EXCEPT !.pc = "failed",
                                      !.settled = settle(call, "Validation")]
                    ELSE [call EXCEPT !.pc = "updating"]]
        /\ UNCHANGED <<now, cache, raceFrame>>

\* pages.update resolves: the write is made, and it is recorded.
PageUpdated(c) ==
    LET call == ut.calls[c]
    IN  /\ call.pc = "updating"
        /\ cache' = recordIdempotency(cache, call.pageId, "updateStatus",
                                      call.status, now)
        /\ ut' = [ut EXCEPT
                    !.writes = Append(@, [id |-> call.id, with |-> call.with,
                                          pageId |-> call.pageId,
                                          status |-> call.status]),
                    !.calls[c] = [call EXCEPT
                                    !.pc = "done",
                                    !.settled = settle(call, "returned")]]
        /\ UNCHANGED <<now, raceFrame>>

\* pages.retrieve or pages.update rejects.
RequestRejects(c) ==
    LET call == ut.calls[c]
    IN  /\ c \in InRequest
        /\ ut' = [ut EXCEPT !.calls[c] =
                    [call EXCEPT !.pc = "failed",
                                 !.settled = settle(call, "rejected")]]
        /\ UNCHANGED <<now, cache, raceFrame>>

\* The request timer of the call's only attempt fires first.
RequestTimesOut(c) ==
    LET call == ut.calls[c]
    IN  /\ c \in InRequest
        /\ call.settled = "pending"
        /\ now - call.startedAt >= enterprise.timeout.requestTimeoutMs
        /\ ut' = [ut EXCEPT !.calls[c].settled = "timeout"]
        /\ UNCHANGED <<now, cache, raceFrame>>

RaceTick ==
    /\ now < MaxUpdTime
    /\ now' = now + 1
    /\ UNCHANGED <<cache, ut, raceFrame>>

NextRace ==
    \/ \E c \in Calls, status \in Statuses : RaceCall(c, PageA.text, status)
    \/ \E c \in Calls, archived \in BOOLEAN : PageRetrieved(c, archived)
    \/ \E c \in Calls : PageUpdated(c)
    \/ \E c \in Calls : RequestRejects(c)
    \/ \E c \in Calls : RequestTimesOut(c)
    \/ RaceTick

SpecRace == InitRace /\ [][NextRace]_vars

\* Two writes of one fingerprint, made by calls that were in flight together.
ConcurrentDuplicates(v, w) ==
    /\ v.id # w.id
    /\ v.pageId = w.pageId
    /\ v.status = w.status
    /\ v.id \in w.with

\* C38: with idempotency enabled, updateTask calls with an identical
\* fingerprint that run concurrently make the underlying write at most once.
C38_ConcurrentDuplicatesWriteOnce ==
    enterprise.idempotency.enabled =>
        \A i, j \in DOMAIN ut.writes :
            ~ConcurrentDuplicates(ut.writes[i], ut.writes[j])

\* C39: when continueOnError is not set, batchUpdate stops at the first
\* failed update: it does not resolve, and it starts no update of a batch
\* after the one of that update; when continueOnError is set it does not
\* reject, and it has processed every update when it resolves.
C39_StopsAtFirstFailure ==
    /\ (~batch.options.continueOnError /\ Len(batch.failed) > 0) =>
          /\ batch.pc # "resolved"
          /\ batch.i < batch.failed[1].update
    /\ batch.options.continueOnError =>
          /\ batch.pc # "rejected"
          /\ batch.pc = "resolved" =>
                Len(batch.succeeded) + Len(batch.failed) = Len(batch.updates)

\* C40: in every reachable state of an enabled breaker with
\* failureThreshold >= 1, whatever the interleaving of the concurrent calls
\* and of reset(), a CLOSED breaker has failureCount < failureThreshold.
C40_ClosedBelowThreshold ==
    (config.enabled /\ config.failureThreshold >= 1 /\ cb.state = "CLOSED")
    => cb.failureCount < config.failureThreshold

\* A failure that leaves the breaker CLOSED, one short of the threshold,
\* while the other caller's operation is in flight.
C40_Witness ==
    /\ config.enabled
    /\ ev.type = "failure"
    /\ cb.state = "CLOSED"
    /\ cb.failureCount = config.failureThreshold - 1
    /\ cb.failureCount >= 1
    /\ \E c \in Calls \ {ev.c} : inflight[c] = "running"

====
